---- MODULE Spec2Model ----
(***************************************************************************)
(* A CHIP-8 virtual machine (ypro/chip8): the Chip of chip.rs with its     *)
(* Ram, RegMap, call stack, keypad and Framebuffer, driven by a host that  *)
(* loads a ROM, sets PC and then calls cycle(), cycle_timers() and the key *)
(* mutators.                                                               *)
(***************************************************************************)
EXTENDS Integers, Sequences, FiniteSets, TLC

VARIABLES
    ram,            \* Chip.ram.mem: RAMSIZE bytes
    sprite_addr,    \* Chip.sprite_addr: base address of each built-in digit sprite
    regs,           \* Chip.regs: [vx, dt, st, i, pc, sp]
    stack,          \* Chip.stack: STACKSIZE return addresses
    keys,           \* Chip.keys: 16 booleans
    framebuffer,    \* Chip.framebuffer.frame: DISPLAY_HEIGHT rows of DISPLAY_WIDTH cells
    rnd,            \* Chip.rnd: generator state
    profile,        \* Chip.profile: the four quirk toggles
    colisions,      \* the caller's `colisions` out-parameter of the latest draw_sprite
    panic,          \* "none" while the process runs, else why it aborted
    build,          \* "any" until an integer overflow shows whether overflow checks are on
    phase,          \* host position: "new", "loaded" (ROM in memory), "running" (PC set)
    cycles,         \* host counter of cycle() calls
    events,         \* host counter of key events, timer ticks and direct framebuffer calls
    depth,          \* history: completed CALLs minus completed RETs
    sound,          \* history: the value the last Fx18 loaded and the timer ticks since
    keyev,          \* history: each key's most recent event, "none", "press" or "unpress"
    await,          \* history: whether the last cycle() was an Fx0A that rewound, and its x
    last            \* the call the host made last: [op, code, args]

vars == <<ram, sprite_addr, regs, stack, keys, framebuffer, rnd, profile,
          colisions, panic, build, phase, cycles, events, depth, sound, keyev, await,
          last>>

chipvars == <<ram, sprite_addr, regs, stack, keys, framebuffer, rnd, profile,
              colisions, panic, build>>

-----------------------------------------------------------------------------
(* Architecture constants (arch.rs).                                        *)

RAMSIZE == 4096
STACKSIZE == 16
NSPRITES == 16
NVREGS == 16
DISPLAY_WIDTH == 64
DISPLAY_HEIGHT == 32
NKEYS == 16


-----------------------------------------------------------------------------
(* Bounds of the exploration.                                               *)

MaxCycles == 18
MaxEvents == 2
MaxDraws == 2
MaxWrites == 2

-----------------------------------------------------------------------------
(* Bit arithmetic on unsigned integers.                                     *)

RECURSIVE BitAnd(_, _)
BitAnd(a, b) ==
    IF a = 0 \/ b = 0 THEN 0
    ELSE (a % 2) * (b % 2) + 2 * BitAnd(a \div 2, b \div 2)

RECURSIVE BitOr(_, _)
BitOr(a, b) ==
    IF a = 0 THEN b
    ELSE IF b = 0 THEN a
    ELSE (IF a % 2 = 1 \/ b % 2 = 1 THEN 1 ELSE 0) + 2 * BitOr(a \div 2, b \div 2)

RECURSIVE BitXor(_, _)
BitXor(a, b) ==
    IF a = 0 THEN b
    ELSE IF b = 0 THEN a
    ELSE ((a + b) % 2) + 2 * BitXor(a \div 2, b \div 2)

RECURSIVE Pow2(_)
Pow2(k) == IF k = 0 THEN 1 ELSE 2 * Pow2(k - 1)

Shr(a, k) == a \div Pow2(k)

\* u8 << k: the bits shifted past bit 7 are dropped
ShlU8(a, k) == (a * Pow2(k)) % 256

-----------------------------------------------------------------------------
(* instr.rs                                                                 *)

\* a decoder that masks y out of the word but does not shift it down
Instr_y_unshifted(opcode) ==
    [ opcode |-> opcode,
      c   |-> Shr(BitAnd(opcode, \hF000), 12),
      x   |-> Shr(BitAnd(opcode, \h0F00), 8),
      y   |-> BitAnd(opcode, \h00F0),
      n   |-> BitAnd(opcode, \h000F),
      nn  |-> BitAnd(opcode, \h00FF),
      nnn |-> BitAnd(opcode, \h0FFF) ]

Instr(opcode) ==
    [ opcode |-> opcode,
      c   |-> Shr(BitAnd(opcode, \hF000), 12),
      x   |-> Shr(BitAnd(opcode, \h0F00), 8),
      y   |-> Shr(BitAnd(opcode, \h00F0), 4),
      n   |-> BitAnd(opcode, \h000F),
      nn  |-> BitAnd(opcode, \h00FF),
      nnn |-> BitAnd(opcode, \h0FFF) ]

-----------------------------------------------------------------------------
(* profile.rs                                                               *)

ProfileOriginal ==
    [ op_8xy6_use_vy |-> TRUE, op_8xye_use_vy |-> TRUE,
      op_fx55_store_i |-> TRUE, op_fx65_store_i |-> TRUE ]

ProfileModern ==
    [ op_8xy6_use_vy |-> FALSE, op_8xye_use_vy |-> FALSE,
      op_fx55_store_i |-> FALSE, op_fx65_store_i |-> FALSE ]

Profiles == {ProfileOriginal, ProfileModern}

\* Profile is a plain struct of public fields: a caller may also mix the toggles
ProfileShrFx55 ==
    [ op_8xy6_use_vy |-> TRUE, op_8xye_use_vy |-> FALSE,
      op_fx55_store_i |-> TRUE, op_fx65_store_i |-> FALSE ]

ProfileShlFx65 ==
    [ op_8xy6_use_vy |-> FALSE, op_8xye_use_vy |-> TRUE,
      op_fx55_store_i |-> FALSE, op_fx65_store_i |-> TRUE ]

AllProfiles == Profiles \cup {ProfileShrFx55, ProfileShlFx65}

\* every setting of the four toggles
ToggleSettings ==
    [ op_8xy6_use_vy : BOOLEAN, op_8xye_use_vy : BOOLEAN,
      op_fx55_store_i : BOOLEAN, op_fx65_store_i : BOOLEAN ]

-----------------------------------------------------------------------------
(* The machine as one value: the fields cycle() and the Ram and Framebuffer *)
(* methods read and write, plus the panic that aborts them.                 *)

self ==
    [ ram |-> ram, regs |-> regs, stack |-> stack, keys |-> keys,
      framebuffer |-> framebuffer, rnd |-> rnd, profile |-> profile,
      colisions |-> colisions, panic |-> panic, build |-> build ]

Panic(c, why) == [c EXCEPT !.panic = why]

Live(c) == c.panic = "none"

-----------------------------------------------------------------------------
(* ram.rs                                                                   *)

RamNew == [a \in 0..(RAMSIZE - 1) |-> 0]

\* Array indexing (util.rs impl_index!): an index past the end panics
InRam(addr) == addr >= 0 /\ addr < RAMSIZE

\* a write whose address wraps around the end of memory
write_u8_wrap(c, addr, value) ==
    IF ~Live(c) THEN c
    ELSE [c EXCEPT !.ram[addr % RAMSIZE] = value]

write_u8(c, addr, value) ==
    IF ~Live(c) THEN c
    ELSE IF ~InRam(addr) THEN Panic(c, "index")
    ELSE [c EXCEPT !.ram[addr] = value]

read_u8(c, addr) == c.ram[addr]

read_u16(c, addr) == c.ram[addr] * 256 + c.ram[addr + 1]

\* a write_u16 that stores the low byte first
write_u16_le(c, addr, v) ==
    write_u8(write_u8(c, addr, BitAnd(v, \hFF)), addr + 1, Shr(BitAnd(v, \hFF00), 8))

write_u16(c, addr, v) ==
    write_u8(write_u8(c, addr, Shr(BitAnd(v, \hFF00), 8)), addr + 1, BitAnd(v, \hFF))

RECURSIVE load_block_u16(_, _, _)
load_block_u16(c, addr, buf) ==
    IF buf = <<>> \/ ~Live(c) THEN c
    ELSE load_block_u16(write_u16(c, addr, Head(buf)), addr + 2, Tail(buf))

RECURSIVE load_block_u8(_, _, _)
load_block_u8(c, addr, buf) ==
    IF buf = <<>> \/ ~Live(c) THEN c
    ELSE load_block_u8(write_u8(c, addr, Head(buf)), addr + 1, Tail(buf))

-----------------------------------------------------------------------------
(* regs.rs                                                                  *)

\* registers that start with PC at the address programs are loaded at
RegMapNew_pc200 ==
    [ vx |-> [r \in 0..(NVREGS - 1) |-> 0],
      dt |-> 0, st |-> 0, i |-> 0, pc |-> 512, sp |-> 0 ]

RegMapNew ==
    [ vx |-> [r \in 0..(NVREGS - 1) |-> 0],
      dt |-> 0, st |-> 0, i |-> 0, pc |-> 0, sp |-> 0 ]

-----------------------------------------------------------------------------
(* framebuffer.rs                                                           *)

FrameNew == [row \in 0..(DISPLAY_HEIGHT - 1) |-> [col \in 0..(DISPLAY_WIDTH - 1) |-> 0]]

\* a clear that stops after the first row
clear_first_row(c) ==
    [c EXCEPT !.framebuffer[0] = [col \in 0..(DISPLAY_WIDTH - 1) |-> 0]]

\* Framebuffer::clear
clear(c) == [c EXCEPT !.framebuffer = FrameNew]

\* Framebuffer::fill_frame_u8 (test helper): column j takes bit 7 - (j % 8) of v
fill_frame_u8(c, v) ==
    [c EXCEPT !.framebuffer =
        [row \in 0..(DISPLAY_HEIGHT - 1) |->
            [col \in 0..(DISPLAY_WIDTH - 1) |->
                IF BitAnd(v, Pow2(7 - (col % 8))) # 0 THEN 1 ELSE 0]]]

\* mutant: a column past the right edge wraps to the left edge instead of ending the row
RECURSIVE draw_row_wrap(_, _, _, _, _)
draw_row_wrap(c, s, frame_y, start_x, x) ==
    IF x >= 8 THEN c
    ELSE LET frame_x == (start_x + x) % DISPLAY_WIDTH
             bit_mask == Pow2(7 - x)
             flip_bit == BitAnd(s, bit_mask) # 0
             frame_bit == c.framebuffer[frame_y][frame_x]
         IN  IF flip_bit
             THEN draw_row_wrap([c EXCEPT !.colisions = (frame_bit = 1),
                                          !.framebuffer[frame_y][frame_x] = 1 - frame_bit],
                                s, frame_y, start_x, x + 1)
             ELSE draw_row_wrap(c, s, frame_y, start_x, x + 1)

\* a row drawn by setting the cells instead of flipping them
RECURSIVE draw_row_set(_, _, _, _, _)
draw_row_set(c, s, frame_y, start_x, x) ==
    IF x >= 8 THEN c
    ELSE LET frame_x == start_x + x IN
         IF frame_x >= DISPLAY_WIDTH THEN c
         ELSE LET frame_bit == c.framebuffer[frame_y][frame_x]
              IN  IF BitAnd(s, Pow2(7 - x)) # 0
                  THEN draw_row_set([c EXCEPT !.colisions = (frame_bit = 1),
                                              !.framebuffer[frame_y][frame_x] = 1],
                                    s, frame_y, start_x, x + 1)
                  ELSE draw_row_set(c, s, frame_y, start_x, x + 1)

\* an inner loop that adds the sprite bit to the cell instead of flipping the cell
RECURSIVE draw_row_add(_, _, _, _, _)
draw_row_add(c, s, frame_y, start_x, x) ==
    IF x >= 8 THEN c
    ELSE LET frame_x == start_x + x IN
         IF frame_x >= DISPLAY_WIDTH THEN c
         ELSE LET bit_mask == Pow2(7 - x)
                  flip_bit == BitAnd(s, bit_mask) # 0
                  frame_bit == c.framebuffer[frame_y][frame_x]
              IN  IF flip_bit
                  THEN draw_row_add([c EXCEPT !.colisions = (frame_bit = 1),
                                              !.framebuffer[frame_y][frame_x] = frame_bit + 1],
                                    s, frame_y, start_x, x + 1)
                  ELSE draw_row_add(c, s, frame_y, start_x, x + 1)

\* the inner loop of draw_sprite: bits x..7 of byte s on row frame_y
RECURSIVE draw_row(_, _, _, _, _)
draw_row(c, s, frame_y, start_x, x) ==
    IF x >= 8 THEN c
    ELSE LET frame_x == start_x + x IN
         IF frame_x >= DISPLAY_WIDTH THEN c
         ELSE LET bit_mask == Pow2(7 - x)
                  flip_bit == BitAnd(s, bit_mask) # 0
                  frame_bit == c.framebuffer[frame_y][frame_x]
              IN  IF flip_bit
                  THEN draw_row([c EXCEPT !.colisions = (frame_bit = 1),
                                          !.framebuffer[frame_y][frame_x] = 1 - frame_bit],
                                s, frame_y, start_x, x + 1)
                  ELSE draw_row(c, s, frame_y, start_x, x + 1)

\* the outer loop of draw_sprite: sprite rows n.. of the slice
RECURSIVE draw_rows(_, _, _, _, _)
draw_rows(c, sprite, start_x, start_y, n) ==
    IF n >= Len(sprite) THEN c
    ELSE LET frame_y == start_y + n IN
         IF frame_y >= DISPLAY_HEIGHT THEN c
         ELSE draw_rows(draw_row(c, sprite[n + 1], frame_y, start_x, 0),
                        sprite, start_x, start_y, n + 1)

draw_sprite(c, sprite, start_x, start_y) ==
    draw_rows([c EXCEPT !.colisions = FALSE], sprite,
              start_x % DISPLAY_WIDTH, start_y % DISPLAY_HEIGHT, 0)

-----------------------------------------------------------------------------
(* chip.rs: construction                                                    *)

Sprites ==
    << <<96, 144, 144, 144, 96>>,     \* 0
       <<32, 96, 32, 32, 112>>,       \* 1
       <<240, 16, 240, 128, 240>>,    \* 2
       <<224, 16, 224, 16, 224>>,     \* 3
       <<144, 144, 240, 16, 16>>,     \* 4
       <<240, 128, 224, 16, 224>>,    \* 5
       <<112, 128, 224, 144, 224>>,   \* 6
       <<240, 16, 32, 64, 64>>,       \* 7
       <<96, 144, 96, 144, 96>>,      \* 8
       <<96, 144, 112, 16, 224>>,     \* 9
       <<96, 144, 240, 144, 144>>,    \* A
       <<224, 144, 224, 144, 224>>,   \* B
       <<112, 128, 128, 128, 112>>,   \* C
       <<224, 144, 144, 144, 224>>,   \* D
       <<240, 128, 240, 128, 240>>,   \* E
       <<240, 128, 240, 128, 128>> >> \* F

\* the sprite-loading loop of new_seed, from sprite k on: each sprite's address is
\* recorded, then its bytes are stored and the address moves past them
RECURSIVE LoadSprites(_, _, _)
LoadSprites(t, k, addr) ==
    IF k > Len(Sprites) THEN t
    ELSE LoadSprites([ ram |-> load_block_u8([ram |-> t.ram, panic |-> "none"],
                                             addr, Sprites[k]).ram,
                       sprite_addr |-> [t.sprite_addr EXCEPT ![k - 1] = addr] ],
                     k + 1, addr + Len(Sprites[k]))

\* a u64 is its eight bytes, lowest first, as Chip::new has the seed before
\* u64::from_le_bytes; U64 gives the bytes of a number below 2^31
U64(n) == [k \in 1..8 |-> IF k <= 4 THEN (n \div Pow2(8 * (k - 1))) % 256 ELSE 0]

\* a.wrapping_mul(m).wrapping_add(c) on u64: the columns of the long multiplication
\* that lie below 2^64, and the carries from column to column
wrapping_mul_add(a, m, c) ==
    LET p(i, k) == IF i <= k THEN a[i] * m[k + 1 - i] ELSE 0
        col(k) == c[k] + p(1, k) + p(2, k) + p(3, k) + p(4, k)
                       + p(5, k) + p(6, k) + p(7, k) + p(8, k)
        t1 == col(1)
        t2 == col(2) + t1 \div 256
        t3 == col(3) + t2 \div 256
        t4 == col(4) + t3 \div 256
        t5 == col(5) + t4 \div 256
        t6 == col(6) + t5 \div 256
        t7 == col(7) + t6 \div 256
        t8 == col(8) + t7 \div 256
    IN  << t1 % 256, t2 % 256, t3 % 256, t4 % 256,
           t5 % 256, t6 % 256, t7 % 256, t8 % 256 >>

\* the generator behind Chip.rnd is Rand32 of the oorandom crate, a PCG with 64 bits
\* of state.  rand_u32 moves the state to state * MULTIPLIER + inc, with
\* MULTIPLIER = 6364136223846793005 and inc = (DEFAULT_INC << 1) | 1 for
\* DEFAULT_INC = 1442695040888963407
RandNext(s) ==
    wrapping_mul_add(s, <<\h2D, \h7F, \h95, \h4C, \h2D, \hF4, \h51, \h58>>,
                        <<\h9F, \h02, \hCF, \hEE, \hFD, \hF6, \h0A, \h28>>)

\* Rand32::new(seed): from state 0 one rand_u32, the seed added, one more rand_u32
RandNew(seed) == RandNext(wrapping_mul_add(RandNext(U64(0)), U64(1), seed))

\* rand_range(0..0x100) as u8 from the state s: rand_u32 gives
\* ((((s >> 18) ^ s) >> 27) as u32).rotate_right(s >> 59), and for a range of 256
\* the threshold of rand_range is 0, so the first output is taken and the result is
\* (output * 256) >> 32, its highest byte
RandByte(s) ==
    LET bit(i) == IF i < 64 THEN (s[(i \div 8) + 1] \div Pow2(i % 8)) % 2 ELSE 0
        xorshifted(j) == (bit(j + 27) + bit(j + 45)) % 2
        rot == s[8] \div 8
        out(k) == xorshifted((k + rot) % 32)
    IN  out(24) + 2 * out(25) + 4 * out(26) + 8 * out(27)
        + 16 * out(28) + 32 * out(29) + 64 * out(30) + 128 * out(31)

DefaultSeed == 4660

new_seed(seed, prof) ==
    LET t == LoadSprites([ ram |-> RamNew,
                           sprite_addr |-> [k \in 0..(NSPRITES - 1) |-> 0] ], 1, 0)
    IN  [ ram |-> t.ram,
          sprite_addr |-> t.sprite_addr,
          regs |-> RegMapNew,
          stack |-> [k \in 0..(STACKSIZE - 1) |-> 0],
          keys |-> [k \in 0..(NKEYS - 1) |-> FALSE],
          framebuffer |-> FrameNew,
          rnd |-> RandNew(seed),
          profile |-> prof ]

\* no wait for a key is going on
NotAwaiting == [on |-> FALSE, x |-> 0]

NoCall == [op |-> "new", code |-> 0, args |-> <<>>]

InitChip(seed, prof) ==
    LET c == new_seed(seed, prof) IN
    /\ ram = c.ram
    /\ sprite_addr = c.sprite_addr
    /\ regs = c.regs
    /\ stack = c.stack
    /\ keys = c.keys
    /\ framebuffer = c.framebuffer
    /\ rnd = c.rnd
    /\ profile = c.profile
    /\ colisions = FALSE
    /\ panic = "none"
    /\ build = "any"
    /\ phase = "new"
    /\ cycles = 0
    /\ events = 0
    /\ depth = 0
    /\ sound = [k |-> 0, ticks |-> 0]
    /\ keyev = [k \in 0..(NKEYS - 1) |-> "none"]
    /\ await = NotAwaiting
    /\ last = NoCall

\* the fields of a machine value back into the variables
Commit(c) ==
    /\ ram' = c.ram
    /\ regs' = c.regs
    /\ stack' = c.stack
    /\ keys' = c.keys
    /\ framebuffer' = c.framebuffer
    /\ rnd' = c.rnd
    /\ profile' = c.profile
    /\ colisions' = c.colisions
    /\ panic' = c.panic
    /\ build' = c.build
    /\ UNCHANGED sprite_addr

-----------------------------------------------------------------------------
(* chip.rs: key_press, key_unpress, is_key_pressed, set_pc, load_rom        *)

InKeys(key) == key >= 0 /\ key < NKEYS

\* a press that takes the key number modulo 16
key_press_nibble(c, key) == [c EXCEPT !.keys[key % NKEYS] = TRUE]

key_press(c, key) ==
    IF ~InKeys(key) THEN Panic(c, "index") ELSE [c EXCEPT !.keys[key] = TRUE]

\* a release that clears the whole keypad
key_unpress_all(c, key) ==
    IF ~InKeys(key) THEN Panic(c, "index")
    ELSE [c EXCEPT !.keys = [k \in 0..(NKEYS - 1) |-> FALSE]]

key_unpress(c, key) ==
    IF ~InKeys(key) THEN Panic(c, "index") ELSE [c EXCEPT !.keys[key] = FALSE]

\* called only with InKeys(key): the callers panic otherwise
is_key_pressed(c, key) == c.keys[key]

set_pc(c, addr) == [c EXCEPT !.regs.pc = addr]

\* the words of a byte buffer with a trailing odd byte kept as the high byte of
\* one more word
RomWords_padded(rom) ==
    [k \in 1..((Len(rom) + 1) \div 2) |->
        rom[2 * k - 1] * 256 + (IF 2 * k <= Len(rom) THEN rom[2 * k] ELSE 0)]

\* the words of a byte buffer, big-endian, a trailing odd byte dropped
RomWords(rom) == [k \in 1..(Len(rom) \div 2) |-> rom[2 * k - 1] * 256 + rom[2 * k]]

load_rom(c, rom, start) == load_block_u16(c, start, RomWords(rom))

-----------------------------------------------------------------------------
(* chip.rs: the handlers of cycle(), each applied after PC has advanced     *)

\* an integer overflow: a panic where overflow checks are on, a wrap where they are off
Overflow(c, oc, wrapped) ==
    IF oc THEN Panic([c EXCEPT !.build = "debug"], "overflow")
    ELSE [wrapped EXCEPT !.build = "release"]

op_00E0(c) == clear(c)

\* a RET that jumps to the saved address but leaves SP where it was
op_00EE_keep_sp(c, oc) ==
    IF c.regs.sp = 0 THEN Overflow(c, oc, Panic(c, "index"))
    ELSE [c EXCEPT !.regs.pc = c.stack[c.regs.sp - 1]]

op_00EE(c, oc) ==
    LET c1 == IF c.regs.sp = 0
              THEN Overflow(c, oc, [c EXCEPT !.regs.sp = 255])
              ELSE [c EXCEPT !.regs.sp = @ - 1]
    IN  IF ~Live(c1) THEN c1
        ELSE IF c1.regs.sp >= STACKSIZE THEN Panic(c1, "index")
        ELSE [c1 EXCEPT !.regs.pc = c1.stack[c1.regs.sp]]

op_1nnn(c, nnn) == [c EXCEPT !.regs.pc = nnn]

\* a CALL that advances SP before it stores the return address
op_2nnn_sp_first(c, nnn) ==
    IF c.regs.sp + 1 >= STACKSIZE THEN Panic(c, "index")
    ELSE [c EXCEPT !.stack[c.regs.sp + 1] = c.regs.pc,
                   !.regs.sp = @ + 1,
                   !.regs.pc = nnn]

\* a CALL that, the stack being full, jumps without saving the return address
op_2nnn_saturating(c, nnn) ==
    IF c.regs.sp >= STACKSIZE THEN [c EXCEPT !.regs.pc = nnn]
    ELSE [c EXCEPT !.stack[c.regs.sp] = c.regs.pc,
                   !.regs.sp = @ + 1,
                   !.regs.pc = nnn]

op_2nnn(c, nnn) ==
    IF c.regs.sp >= STACKSIZE THEN Panic(c, "index")
    ELSE [c EXCEPT !.stack[c.regs.sp] = c.regs.pc,
                   !.regs.sp = @ + 1,
                   !.regs.pc = nnn]

\* mutant: the skip does not move PC
Skip_none(c) == c

Skip(c) == [c EXCEPT !.regs.pc = @ + 2]

op_3xnn(c, x, nn) == IF c.regs.vx[x] = nn THEN Skip(c) ELSE c

\* SNE that skips on equality, as SE does
op_4xnn_as_se(c, x, nn) == IF c.regs.vx[x] = nn THEN Skip(c) ELSE c

op_4xnn(c, x, nn) == IF c.regs.vx[x] # nn THEN Skip(c) ELSE c

op_5xy0(c, x, y) == IF c.regs.vx[x] = c.regs.vx[y] THEN Skip(c) ELSE c

op_6xnn(c, x, nn) == [c EXCEPT !.regs.vx[x] = nn]

\* an ADD Vx, nn that reports its carry in VF
op_7xnn_carry(c, x, nn) ==
    [c EXCEPT !.regs.vx[x] = (@ + nn) % 256,
              !.regs.vx[15] = IF c.regs.vx[x] + nn > 255 THEN 1 ELSE 0]

op_7xnn(c, x, nn) == [c EXCEPT !.regs.vx[x] = (@ + nn) % 256]

op_8xy0(c, x, y) == [c EXCEPT !.regs.vx[x] = c.regs.vx[y]]

op_8xy1(c, x, y) == [c EXCEPT !.regs.vx[x] = BitOr(@, c.regs.vx[y])]

op_8xy2(c, x, y) == [c EXCEPT !.regs.vx[x] = BitAnd(@, c.regs.vx[y])]

op_8xy3(c, x, y) == [c EXCEPT !.regs.vx[x] = BitXor(@, c.regs.vx[y])]

\* u8::overflowing_add: the wrapped sum and whether it overflowed
overflowing_add(a, b) == [value |-> (a + b) % 256, overflow |-> a + b > 255]

\* u8::overflowing_sub: the wrapped difference and whether it borrowed
overflowing_sub(a, b) == [value |-> (a - b + 256) % 256, overflow |-> a < b]

\* mutant: VF is written before the sum, so the sum lands in VF when x = F
op_8xy4_flag_first(c, x, y) ==
    LET r == overflowing_add(c.regs.vx[x], c.regs.vx[y])
        c1 == [c EXCEPT !.regs.vx[15] = IF r.overflow THEN 1 ELSE 0]
    IN  [c1 EXCEPT !.regs.vx[x] = r.value]

op_8xy4(c, x, y) ==
    LET r == overflowing_add(c.regs.vx[x], c.regs.vx[y])
        c1 == [c EXCEPT !.regs.vx[x] = r.value]
    IN  [c1 EXCEPT !.regs.vx[15] = IF r.overflow THEN 1 ELSE 0]

op_8xy5(c, x, y) ==
    LET r == overflowing_sub(c.regs.vx[x], c.regs.vx[y])
        c1 == [c EXCEPT !.regs.vx[x] = r.value]
    IN  [c1 EXCEPT !.regs.vx[15] = IF r.overflow THEN 0 ELSE 1]

\* mutant: SHR tests the toggle of SHL
op_8xy6_shl_toggle(c, x, y) ==
    LET c1 == IF c.profile.op_8xye_use_vy
              THEN [c EXCEPT !.regs.vx[x] = c.regs.vx[y]]
              ELSE c
        c2 == [c1 EXCEPT !.regs.vx[15] = BitAnd(c1.regs.vx[x], 1)]
    IN  [c2 EXCEPT !.regs.vx[x] = Shr(@, 1)]

op_8xy6(c, x, y) ==
    LET c1 == IF c.profile.op_8xy6_use_vy
              THEN [c EXCEPT !.regs.vx[x] = c.regs.vx[y]]
              ELSE c
        c2 == [c1 EXCEPT !.regs.vx[15] = BitAnd(c1.regs.vx[x], 1)]
    IN  [c2 EXCEPT !.regs.vx[x] = Shr(@, 1)]

\* mutant: SUBN subtracts in the order of SUB
op_8xy7_as_sub(c, x, y) ==
    LET r == overflowing_sub(c.regs.vx[x], c.regs.vx[y])
        c1 == [c EXCEPT !.regs.vx[x] = r.value]
    IN  [c1 EXCEPT !.regs.vx[15] = IF r.overflow THEN 0 ELSE 1]

op_8xy7(c, x, y) ==
    LET r == overflowing_sub(c.regs.vx[y], c.regs.vx[x])
        c1 == [c EXCEPT !.regs.vx[x] = r.value]
    IN  [c1 EXCEPT !.regs.vx[15] = IF r.overflow THEN 0 ELSE 1]

\* mutant: SHL takes the flag from Vx before Vy is copied into it
op_8xyE_flag_before_copy(c, x, y) ==
    LET c1 == [c EXCEPT !.regs.vx[15] = IF BitAnd(c.regs.vx[x], 128) # 0 THEN 1 ELSE 0]
        c2 == IF c.profile.op_8xye_use_vy
              THEN [c1 EXCEPT !.regs.vx[x] = c1.regs.vx[y]]
              ELSE c1
    IN  [c2 EXCEPT !.regs.vx[x] = ShlU8(@, 1)]

op_8xyE(c, x, y) ==
    LET c1 == IF c.profile.op_8xye_use_vy
              THEN [c EXCEPT !.regs.vx[x] = c.regs.vx[y]]
              ELSE c
        c2 == [c1 EXCEPT !.regs.vx[15] = IF BitAnd(c1.regs.vx[x], 128) # 0 THEN 1 ELSE 0]
    IN  [c2 EXCEPT !.regs.vx[x] = ShlU8(@, 1)]

op_9xy0(c, x, y) == IF c.regs.vx[x] # c.regs.vx[y] THEN Skip(c) ELSE c

op_Annn(c, nnn) == [c EXCEPT !.regs.i = nnn]

\* a JP V0, nnn that keeps twelve bits of the sum
op_Bnnn_12bit(c, nnn) == [c EXCEPT !.regs.pc = (c.regs.vx[0] + nnn) % 4096]

op_Bnnn(c, nnn) == [c EXCEPT !.regs.pc = c.regs.vx[0] + nnn]

\* RND that draws nothing when the mask is 0
op_Cxnn_lazy(c, x, nn) ==
    IF nn = 0 THEN [c EXCEPT !.regs.vx[x] = 0]
    ELSE [c EXCEPT !.regs.vx[x] = BitAnd(RandByte(c.rnd), nn),
                   !.rnd = RandNext(@)]

op_Cxnn(c, x, nn) ==
    [c EXCEPT !.regs.vx[x] = BitAnd(RandByte(c.rnd), nn),
              !.rnd = RandNext(@)]

\* &self.ram.mem[addr_start..addr_end]: the bytes of the slice
RamSlice(c, addr_start, addr_end) ==
    [k \in 1..(addr_end - addr_start) |-> c.ram[addr_start + k - 1]]

\* a DRW that clears VF before it reads the position
op_Dxyn_vf_first(c, x, y, n) ==
    LET addr_start == c.regs.i
        addr_end == addr_start + n
        c0 == [c EXCEPT !.regs.vx[15] = 0]
    IN  IF addr_end > RAMSIZE THEN Panic(c, "index")
        ELSE LET c1 == draw_sprite(c0, RamSlice(c0, addr_start, addr_end),
                                   c0.regs.vx[x], c0.regs.vx[y])
             IN  [c1 EXCEPT !.regs.vx[15] = IF c1.colisions THEN 1 ELSE 0]

op_Dxyn(c, x, y, n) ==
    LET addr_start == c.regs.i
        addr_end == addr_start + n
    IN  IF addr_end > RAMSIZE THEN Panic(c, "index")
        ELSE LET c1 == draw_sprite(c, RamSlice(c, addr_start, addr_end),
                                   c.regs.vx[x], c.regs.vx[y])
             IN  [c1 EXCEPT !.regs.vx[15] = IF c1.colisions THEN 1 ELSE 0]

op_Ex9E(c, x) ==
    IF ~InKeys(c.regs.vx[x]) THEN Panic(c, "index")
    ELSE IF is_key_pressed(c, c.regs.vx[x]) THEN Skip(c) ELSE c

\* SKNP that skips when the key is pressed, as SKP does
op_ExA1_as_skp(c, x) ==
    IF ~InKeys(c.regs.vx[x]) THEN Panic(c, "index")
    ELSE IF is_key_pressed(c, c.regs.vx[x]) THEN Skip(c) ELSE c

op_ExA1(c, x) ==
    IF ~InKeys(c.regs.vx[x]) THEN Panic(c, "index")
    ELSE IF ~is_key_pressed(c, c.regs.vx[x]) THEN Skip(c) ELSE c

\* a LD Vx, DT that stops the timer it read
op_Fx07_reset(c, x) == [c EXCEPT !.regs.vx[x] = c.regs.dt, !.regs.dt = 0]

op_Fx07(c, x) == [c EXCEPT !.regs.vx[x] = c.regs.dt]

\* a search that answers the highest pressed key instead of the lowest
position_highest(c, k) ==
    IF \E j \in k..(NKEYS - 1) : c.keys[j]
    THEN CHOOSE j \in k..(NKEYS - 1) :
            c.keys[j] /\ \A i \in (j + 1)..(NKEYS - 1) : ~c.keys[i]
    ELSE NKEYS

\* self.keys.iter().position(|&pressed| pressed), searching from index k: NKEYS is None
RECURSIVE position(_, _)
position(c, k) ==
    IF k >= NKEYS THEN NKEYS
    ELSE IF c.keys[k] THEN k
    ELSE position(c, k + 1)

\* a LD Vx, K that goes on to the next instruction when no key is pressed
op_Fx0A_no_rewind(c, x) ==
    LET p == position(c, 0) IN
    IF p < NKEYS THEN [c EXCEPT !.regs.vx[x] = p]
    ELSE c

op_Fx0A(c, x) ==
    LET p == position(c, 0) IN
    IF p < NKEYS THEN [c EXCEPT !.regs.vx[x] = p]
    ELSE [c EXCEPT !.regs.pc = @ - 2]

op_Fx15(c, x) == [c EXCEPT !.regs.dt = c.regs.vx[x]]

op_Fx18(c, x) == [c EXCEPT !.regs.st = c.regs.vx[x]]

\* an ADD I, Vx that keeps twelve bits of the sum
op_Fx1E_12bit(c, x, oc) == [c EXCEPT !.regs.i = (c.regs.i + c.regs.vx[x]) % 4096]

op_Fx1E(c, x, oc) ==
    LET sum == c.regs.i + c.regs.vx[x] IN
    IF sum > 65535 THEN Overflow(c, oc, [c EXCEPT !.regs.i = sum % 65536])
    ELSE [c EXCEPT !.regs.i = sum]

\* LD F that takes the digit itself for its address
op_Fx29_unscaled(c, x) ==
    IF c.regs.vx[x] >= NSPRITES THEN Panic(c, "index")
    ELSE [c EXCEPT !.regs.i = c.regs.vx[x]]

op_Fx29(c, x) ==
    IF c.regs.vx[x] >= NSPRITES THEN Panic(c, "index")
    ELSE [c EXCEPT !.regs.i = sprite_addr[c.regs.vx[x]]]

\* BCD stored ones first
op_Fx33_ones_first(c, x) ==
    LET bcd == << c.regs.vx[x] % 10,
                  (c.regs.vx[x] \div 10) % 10,
                  c.regs.vx[x] \div 100 >>
    IN  load_block_u8(c, c.regs.i, bcd)

\* BCD that moves I past the digits when Fx55 would move it
op_Fx33_store_i(c, x) ==
    LET bcd == << c.regs.vx[x] \div 100,
                  (c.regs.vx[x] \div 10) % 10,
                  c.regs.vx[x] % 10 >>
        c1 == load_block_u8(c, c.regs.i, bcd)
    IN  IF Live(c1) /\ c.profile.op_fx55_store_i
        THEN [c1 EXCEPT !.regs.i = @ + 3]
        ELSE c1

op_Fx33(c, x) ==
    LET bcd == << c.regs.vx[x] \div 100,
                  (c.regs.vx[x] \div 10) % 10,
                  c.regs.vx[x] % 10 >>
    IN  load_block_u8(c, c.regs.i, bcd)

\* the loop of Fx55 from register k on
RECURSIVE store_loop(_, _, _)
store_loop(c, x, k) ==
    IF k > x \/ ~Live(c) THEN c
    ELSE store_loop(write_u8(c, c.regs.i + k, c.regs.vx[k]), x, k + 1)

\* mutant: the loop of Fx55 stops before Vx (0..x instead of 0..=x)
op_Fx55_exclusive(c, x) ==
    LET c1 == store_loop(c, x - 1, 0) IN
    IF Live(c1) /\ c.profile.op_fx55_store_i
    THEN [c1 EXCEPT !.regs.i = @ + x + 1]
    ELSE c1

op_Fx55(c, x) ==
    LET c1 == store_loop(c, x, 0) IN
    IF Live(c1) /\ c.profile.op_fx55_store_i
    THEN [c1 EXCEPT !.regs.i = @ + x + 1]
    ELSE c1

\* the loop of Fx65 from register k on
RECURSIVE load_loop(_, _, _)
load_loop(c, x, k) ==
    IF k > x \/ ~Live(c) THEN c
    ELSE LET addr == c.regs.i + k IN
         IF ~InRam(addr) THEN Panic(c, "index")
         ELSE load_loop([c EXCEPT !.regs.vx[k] = read_u8(c, addr)], x, k + 1)

\* mutant: Fx65 tests the toggle of Fx55
op_Fx65_fx55_toggle(c, x) ==
    LET c1 == load_loop(c, x, 0) IN
    IF Live(c1) /\ c.profile.op_fx55_store_i
    THEN [c1 EXCEPT !.regs.i = @ + x + 1]
    ELSE c1

op_Fx65(c, x) ==
    LET c1 == load_loop(c, x, 0) IN
    IF Live(c1) /\ c.profile.op_fx65_store_i
    THEN [c1 EXCEPT !.regs.i = @ + x + 1]
    ELSE c1

\* a field of a pattern that is not constrained (`..`, or a binding)
Wild == -1

\* one arm's pattern: the values it demands of opcode, c, n and nn
Arm(h, opcode, c, n, nn) == [h |-> h, opcode |-> opcode, c |-> c, n |-> n, nn |-> nn]

\* the patterns of the match in cycle(), in source order
Arms ==
    << Arm("00E0", \h00E0, Wild, Wild, Wild),
       Arm("00EE", \h00EE, Wild, Wild, Wild),
       Arm("1nnn", Wild, 1, Wild, Wild),
       Arm("2nnn", Wild, 2, Wild, Wild),
       Arm("3xnn", Wild, 3, Wild, Wild),
       Arm("4xnn", Wild, 4, Wild, Wild),
       Arm("5xy0", Wild, 5, 0, Wild),
       Arm("6xnn", Wild, 6, Wild, Wild),
       Arm("7xnn", Wild, 7, Wild, Wild),
       Arm("8xy0", Wild, 8, \h0, Wild),
       Arm("8xy1", Wild, 8, \h1, Wild),
       Arm("8xy2", Wild, 8, \h2, Wild),
       Arm("8xy3", Wild, 8, \h3, Wild),
       Arm("8xy4", Wild, 8, \h4, Wild),
       Arm("8xy5", Wild, 8, \h5, Wild),
       Arm("8xy6", Wild, 8, \h6, Wild),
       Arm("8xy7", Wild, 8, \h7, Wild),
       Arm("8xyE", Wild, 8, \hE, Wild),
       Arm("9xy0", Wild, 9, 0, Wild),
       Arm("Annn", Wild, \hA, Wild, Wild),
       Arm("Bnnn", Wild, \hB, Wild, Wild),
       Arm("Cxnn", Wild, \hC, Wild, Wild),
       Arm("Dxyn", Wild, \hD, Wild, Wild),
       Arm("Ex9E", Wild, \hE, Wild, \h9E),
       Arm("ExA1", Wild, \hE, Wild, \hA1),
       Arm("Fx07", Wild, \hF, Wild, \h07),
       Arm("Fx0A", Wild, \hF, Wild, \h0A),
       Arm("Fx15", Wild, \hF, Wild, \h15),
       Arm("Fx18", Wild, \hF, Wild, \h18),
       Arm("Fx1E", Wild, \hF, Wild, \h1E),
       Arm("Fx29", Wild, \hF, Wild, \h29),
       Arm("Fx33", Wild, \hF, Wild, \h33),
       Arm("Fx55", Wild, \hF, Wild, \h55),
       Arm("Fx65", Wild, \hF, Wild, \h65) >>

\* whether an arm's pattern matches the instruction
Matches(arm, instr) ==
    /\ arm.opcode \in {Wild, instr.opcode}
    /\ arm.c \in {Wild, instr.c}
    /\ arm.n \in {Wild, instr.n}
    /\ arm.nn \in {Wild, instr.nn}

\* the arms whose pattern matches the instruction
Matching(instr) == { Arms[k].h : k \in { j \in DOMAIN Arms : Matches(Arms[j], instr) } }

\* the default arm with no panic
unknown_opcode_ignored(c, instr) == c

\* the default arm: panic!("Unknown opcode")
unknown_opcode(c, instr) == Panic(c, "unknown_opcode")

\* the arm of the match in cycle() that takes the instruction: the first whose
\* pattern matches, "unknown" for the default arm
Handler(instr) ==
    IF instr.opcode = \h00E0 THEN "00E0"
    ELSE IF instr.opcode = \h00EE THEN "00EE"
    ELSE IF instr.c = 1 THEN "1nnn"
    ELSE IF instr.c = 2 THEN "2nnn"
    ELSE IF instr.c = 3 THEN "3xnn"
    ELSE IF instr.c = 4 THEN "4xnn"
    ELSE IF instr.c = 5 /\ instr.n = 0 THEN "5xy0"
    ELSE IF instr.c = 6 THEN "6xnn"
    ELSE IF instr.c = 7 THEN "7xnn"
    ELSE IF instr.c = 8 /\ instr.n = 0 THEN "8xy0"
    ELSE IF instr.c = 8 /\ instr.n = 1 THEN "8xy1"
    ELSE IF instr.c = 8 /\ instr.n = 2 THEN "8xy2"
    ELSE IF instr.c = 8 /\ instr.n = 3 THEN "8xy3"
    ELSE IF instr.c = 8 /\ instr.n = 4 THEN "8xy4"
    ELSE IF instr.c = 8 /\ instr.n = 5 THEN "8xy5"
    ELSE IF instr.c = 8 /\ instr.n = 6 THEN "8xy6"
    ELSE IF instr.c = 8 /\ instr.n = 7 THEN "8xy7"
    ELSE IF instr.c = 8 /\ instr.n = \hE THEN "8xyE"
    ELSE IF instr.c = 9 /\ instr.n = 0 THEN "9xy0"
    ELSE IF instr.c = \hA THEN "Annn"
    ELSE IF instr.c = \hB THEN "Bnnn"
    ELSE IF instr.c = \hC THEN "Cxnn"
    ELSE IF instr.c = \hD THEN "Dxyn"
    ELSE IF instr.c = \hE /\ instr.nn = \h9E THEN "Ex9E"
    ELSE IF instr.c = \hE /\ instr.nn = \hA1 THEN "ExA1"
    ELSE IF instr.c = \hF /\ instr.nn = \h07 THEN "Fx07"
    ELSE IF instr.c = \hF /\ instr.nn = \h0A THEN "Fx0A"
    ELSE IF instr.c = \hF /\ instr.nn = \h15 THEN "Fx15"
    ELSE IF instr.c = \hF /\ instr.nn = \h18 THEN "Fx18"
    ELSE IF instr.c = \hF /\ instr.nn = \h1E THEN "Fx1E"
    ELSE IF instr.c = \hF /\ instr.nn = \h29 THEN "Fx29"
    ELSE IF instr.c = \hF /\ instr.nn = \h33 THEN "Fx33"
    ELSE IF instr.c = \hF /\ instr.nn = \h55 THEN "Fx55"
    ELSE IF instr.c = \hF /\ instr.nn = \h65 THEN "Fx65"
    ELSE "unknown"

\* the body of the matching arm
Execute(c, instr, oc) ==
    LET h == Handler(instr)
        x == instr.x
        y == instr.y
        n == instr.n
        nn == instr.nn
        nnn == instr.nnn
    IN  CASE h = "00E0" -> op_00E0(c)
          [] h = "00EE" -> op_00EE(c, oc)
          [] h = "1nnn" -> op_1nnn(c, nnn)
          [] h = "2nnn" -> op_2nnn(c, nnn)
          [] h = "3xnn" -> op_3xnn(c, x, nn)
          [] h = "4xnn" -> op_4xnn(c, x, nn)
          [] h = "5xy0" -> op_5xy0(c, x, y)
          [] h = "6xnn" -> op_6xnn(c, x, nn)
          [] h = "7xnn" -> op_7xnn(c, x, nn)
          [] h = "8xy0" -> op_8xy0(c, x, y)
          [] h = "8xy1" -> op_8xy1(c, x, y)
          [] h = "8xy2" -> op_8xy2(c, x, y)
          [] h = "8xy3" -> op_8xy3(c, x, y)
          [] h = "8xy4" -> op_8xy4(c, x, y)
          [] h = "8xy5" -> op_8xy5(c, x, y)
          [] h = "8xy6" -> op_8xy6(c, x, y)
          [] h = "8xy7" -> op_8xy7(c, x, y)
          [] h = "8xyE" -> op_8xyE(c, x, y)
          [] h = "9xy0" -> op_9xy0(c, x, y)
          [] h = "Annn" -> op_Annn(c, nnn)
          [] h = "Bnnn" -> op_Bnnn(c, nnn)
          [] h = "Cxnn" -> op_Cxnn(c, x, nn)
          [] h = "Dxyn" -> op_Dxyn(c, x, y, n)
          [] h = "Ex9E" -> op_Ex9E(c, x)
          [] h = "ExA1" -> op_ExA1(c, x)
          [] h = "Fx07" -> op_Fx07(c, x)
          [] h = "Fx0A" -> op_Fx0A(c, x)
          [] h = "Fx15" -> op_Fx15(c, x)
          [] h = "Fx18" -> op_Fx18(c, x)
          [] h = "Fx1E" -> op_Fx1E(c, x, oc)
          [] h = "Fx29" -> op_Fx29(c, x)
          [] h = "Fx33" -> op_Fx33(c, x)
          [] h = "Fx55" -> op_Fx55(c, x)
          [] h = "Fx65" -> op_Fx65(c, x)
          [] OTHER -> unknown_opcode(c, instr)

\* whether the fetch at PC stays inside memory
CanFetch(c) == InRam(c.regs.pc) /\ InRam(c.regs.pc + 1)

\* the instruction word cycle() fetches; 0 when the fetch itself panics
Fetched(c) == IF CanFetch(c) THEN read_u16(c, c.regs.pc) ELSE 0

cycle(c, oc) ==
    IF ~CanFetch(c) THEN Panic(c, "index")
    ELSE LET code == read_u16(c, c.regs.pc)
             instr == Instr(code)
         IN  Execute([c EXCEPT !.regs.pc = @ + 2], instr, oc)

\* timers of which ST runs only while DT does
cycle_timers_st_under_dt(c) ==
    IF c.regs.dt > 0
    THEN [c EXCEPT !.regs.dt = @ - 1, !.regs.st = IF @ > 0 THEN @ - 1 ELSE @]
    ELSE c

cycle_timers(c) ==
    LET c1 == IF c.regs.dt > 0 THEN [c EXCEPT !.regs.dt = @ - 1] ELSE c
    IN  IF c1.regs.st > 0 THEN [c1 EXCEPT !.regs.st = @ - 1] ELSE c1

\* the sound following the delay timer
is_sound_on_dt(c) == c.regs.dt > 0

is_sound_on(c) == c.regs.st > 0

get_frame(c) == c.framebuffer

-----------------------------------------------------------------------------
(* The host's calls (main.rs; the run_code and Framebuffer test harnesses). *)

Running == phase = "running" /\ panic = "none"

Call(op, code, args) == [op |-> op, code |-> code, args |-> args]

\* chip.load_rom(&buffer, start)
LoadRom(rom, start) ==
    /\ phase = "new" /\ panic = "none"
    /\ Commit(load_rom(self, rom, start))
    /\ phase' = "loaded"
    /\ last' = Call("load_rom", 0, <<start, rom>>)
    /\ UNCHANGED <<cycles, events, depth, sound, keyev, await>>

\* chip.set_pc(addr)
SetPc(addr) ==
    /\ phase = "loaded" /\ panic = "none"
    /\ Commit(set_pc(self, addr))
    /\ phase' = "running"
    /\ last' = Call("set_pc", 0, <<addr>>)
    /\ UNCHANGED <<cycles, events, depth, sound, keyev, await>>

\* cycle() under each overflow-check setting the build may still have: the two
\* settings differ only when the instruction overflows an integer
cycle_outcomes(c) ==
    LET r == cycle(c, TRUE) IN
    IF r.build = c.build THEN {r}
    ELSE (IF c.build = "any" THEN {r} ELSE {}) \cup {cycle(c, FALSE)}

\* the call depth after a cycle() of handler h that ended as r: a CALL that
\* completed adds one, a RET that completed takes one
CallDepth(d, h, r) ==
    IF ~Live(r) THEN d
    ELSE IF h = "2nnn" THEN d + 1
    ELSE IF h = "00EE" THEN d - 1
    ELSE d

\* the sound history after a cycle() of handler h that ended as r: an Fx18 that
\* completed starts it again from the value it loaded
SoundLoaded(h0, h, r) ==
    IF Live(r) /\ h = "Fx18" THEN [k |-> r.regs.st, ticks |-> 0] ELSE h0

\* whether a cycle() from c that ended as r was an Fx0A that found no key and put
\* PC back on itself, and the register it waits to fill
AwaitNext(c, r) ==
    IF /\ Live(r) /\ CanFetch(c)
       /\ Handler(Instr(Fetched(c))) = "Fx0A"
       /\ r.regs.pc = c.regs.pc
    THEN [on |-> TRUE, x |-> Instr(Fetched(c)).x]
    ELSE NotAwaiting


\* chip.cycle(), apart from the host's count of the calls
CycleStep ==
    /\ Running
    /\ \E r \in cycle_outcomes(self) :
            /\ Commit(r)
            /\ depth' = CallDepth(depth, Handler(Instr(Fetched(self))), r)
            /\ sound' = SoundLoaded(sound, Handler(Instr(Fetched(self))), r)
            /\ await' = AwaitNext(self, r)
    /\ last' = Call("cycle", Fetched(self), <<regs.pc>>)
    /\ UNCHANGED <<phase, events, keyev>>

\* chip.cycle(), in a run of at most MaxCycles calls
Cycle ==
    /\ cycles < MaxCycles
    /\ CycleStep
    /\ cycles' = cycles + 1

\* chip.cycle() in the loop of main, which calls it on every turn for as long as
\* the program runs; the calls are counted up to MaxCycles
HostCycle ==
    /\ CycleStep
    /\ cycles' = IF cycles < MaxCycles THEN cycles + 1 ELSE cycles

\* chip.cycle_timers()
CycleTimers ==
    /\ Running
    /\ events < MaxEvents
    /\ Commit(cycle_timers(self))
    /\ events' = events + 1
    /\ last' = Call("cycle_timers", 0, <<>>)
    /\ sound' = [sound EXCEPT !.ticks = @ + 1]
    /\ UNCHANGED <<phase, cycles, depth, keyev, await>>

\* the key history after an event on a key of the keypad
KeyEvent(h, key, ev) == IF InKeys(key) THEN [h EXCEPT ![key] = ev] ELSE h

\* chip.key_press(key)
KeyPress(key) ==
    /\ Running
    /\ events < MaxEvents
    /\ Commit(key_press(self, key))
    /\ events' = events + 1
    /\ last' = Call("key_press", 0, <<key>>)
    /\ keyev' = KeyEvent(keyev, key, "press")
    /\ UNCHANGED <<phase, cycles, depth, sound, await>>

\* chip.key_unpress(key)
KeyUnpress(key) ==
    /\ Running
    /\ events < MaxEvents
    /\ Commit(key_unpress(self, key))
    /\ events' = events + 1
    /\ last' = Call("key_unpress", 0, <<key>>)
    /\ keyev' = KeyEvent(keyev, key, "unpress")
    /\ UNCHANGED <<phase, cycles, depth, sound, await>>

\* d.fill_frame_u8(v) on a new Framebuffer (framebuffer.rs tests)
FillFrame(v) ==
    /\ phase = "new" /\ panic = "none"
    /\ last.op = "new"
    /\ Commit(fill_frame_u8(self, v))
    /\ last' = Call("fill_frame_u8", 0, <<v>>)
    /\ UNCHANGED <<phase, cycles, events, depth, sound, keyev, await>>

\* ram.write_u8(addr, value) (ram.rs tests)
WriteU8(addr, value) ==
    /\ phase = "new" /\ panic = "none"
    /\ events < MaxWrites
    /\ Commit(write_u8(self, addr, value))
    /\ events' = events + 1
    /\ last' = Call("write_u8", 0, <<addr, value>>)
    /\ UNCHANGED <<phase, cycles, depth, sound, keyev, await>>

\* ram.write_u16(addr, v) (ram.rs tests)
WriteU16(addr, v) ==
    /\ phase = "new" /\ panic = "none"
    /\ events < MaxWrites
    /\ Commit(write_u16(self, addr, v))
    /\ events' = events + 1
    /\ last' = Call("write_u16", 0, <<addr, v>>)
    /\ UNCHANGED <<phase, cycles, depth, sound, keyev, await>>

\* chip.regs.i = v, as the chip.rs tests set it before run_code
SetRegI(v) ==
    /\ phase = "new" /\ panic = "none"
    /\ last.op = "new"
    /\ Commit([self EXCEPT !.regs.i = v])
    /\ last' = Call("set_i", 0, <<v>>)
    /\ UNCHANGED <<phase, cycles, events, depth, sound, keyev, await>>

\* d.draw_sprite(sprite, x, y, &mut c) (framebuffer.rs tests)
DrawSprite(sprite, x, y) ==
    /\ phase = "new" /\ panic = "none"
    /\ events < MaxDraws
    /\ Commit(draw_sprite(self, sprite, x, y))
    /\ events' = events + 1
    /\ last' = Call("draw_sprite", 0, <<sprite, x, y>>)
    /\ UNCHANGED <<phase, cycles, depth, sound, keyev, await>>

-----------------------------------------------------------------------------
(* Inputs.                                                                  *)

\* an instruction word from its four nibbles
Word(c, x, y, n) == c * 4096 + x * 256 + y * 16 + n

\* a program as the byte buffer a ROM file holds
RECURSIVE RomBytes(_)
RomBytes(words) ==
    IF words = <<>> THEN <<>>
    ELSE <<Head(words) \div 256, Head(words) % 256>> \o RomBytes(Tail(words))

StartAddr == \h200

\* register values that carry, borrow and shift out of both ends
AluVals == {\h00, \h01, \h80, \hFE, \hFF}

AluRegs == {<<2, 3>>, <<2, 15>>, <<15, 3>>, <<15, 15>>, <<2, 2>>}

AluOps == {4, 5, 6, 7, 14}

\* LD Vx, a ; LD Vy, b ; <8xyN>
AluRoms ==
    { RomBytes(<< Word(6, r[1], 0, 0) + a, Word(6, r[2], 0, 0) + b,
                  Word(8, r[1], r[2], op) >>) :
        r \in AluRegs, a \in AluVals, b \in AluVals, op \in AluOps }

\* addresses for I: the sprite table, its end, the program, the last bytes of memory
MemAddrs == {\h000, \h04E, \h200, \hFF0, \hFFF}

MemRegs == {0, 1, 2, 15}

\* LD V0, a ; LD V1, b ; LD I, addr ; LD [I], Vx
StoreRoms ==
    { RomBytes(<< Word(6, 0, 0, 0) + a, Word(6, 1, 0, 0) + b,
                  Word(10, 0, 0, 0) + addr, Word(15, x, 5, 5) >>) :
        a \in {\h11, \h00}, b \in {\h22}, addr \in MemAddrs, x \in MemRegs }

\* LD V1, b ; LD VF, 0x77 ; LD I, addr ; LD Vx, [I]
LoadRoms ==
    { RomBytes(<< Word(6, 1, 0, 0) + b, Word(6, 15, 0, 0) + \h77,
                  Word(10, 0, 0, 0) + addr, Word(15, x, 6, 5) >>) :
        b \in {\h22}, addr \in MemAddrs, x \in MemRegs }

\* LD Vx, a ; LD I, addr ; DRW Vx, Vy, n ; DRW Vx, Vy, n
DrawRoms ==
    { RomBytes(<< Word(6, r[1], 0, 0) + a, Word(10, 0, 0, 0) + addr,
                  Word(13, r[1], r[2], n), Word(13, r[1], r[2], n) >>) :
        r \in {<<0, 1>>, <<15, 1>>, <<15, 15>>}, a \in {\h00, \h3E},
        addr \in {\h000, \h005}, n \in {0, 5} }

\* LD V1, a ; LD V2, b ; then one of the skips: SE and SNE of V1 against the byte b,
\* against V2 and against itself
SkipRoms ==
    { RomBytes(<< Word(6, 1, 0, 0) + a, Word(6, 2, 0, 0) + b,
                  << \h3100 + b, \h4100 + b, \h5120, \h9120, \h5110, \h9110 >>[k] >>) :
        a \in {\h00, \h05, \hFF}, b \in {\h00, \h05, \hFF}, k \in 1..6 }

\* values with one, two and three decimal digits, with zeros among them
BcdVals == {0, 7, 10, 99, 100, 109, 123, 200, 255}

\* LD Vx, v ; LD I, addr ; LD B, Vx, up to the last three bytes of memory and past
BcdRoms ==
    { RomBytes(<< Word(6, x, 0, 0) + v, Word(10, 0, 0, 0) + addr, Word(15, x, 3, 3) >>) :
        x \in {0, 15}, v \in BcdVals, addr \in {\h04E, \h300, \hFFD, \hFFE} }

\* LD Vx, d ; LD F, Vx for digits and for values that are none; and the same after
\* V0 was stored over the first byte of digit 1
FontRoms ==
    { RomBytes(<< Word(6, x, 0, 0) + d, Word(15, x, 2, 9) >>) :
        x \in {0, 15}, d \in {0, 1, 9, 15, 16, \hFF} }
    \cup { RomBytes(<<\h60AB, \hA005, \hF055, \h6001, \hF029>>) }

\* RND Vx, nn ; RND V1, mm
RndRoms ==
    { RomBytes(<< Word(12, x, 0, 0) + nn, Word(12, 1, 0, 0) + mm >>) :
        x \in {0, 15}, nn \in {\hFF, \h0F, \hA5, \h00}, mm \in {\hFF, \h00} }

\* LD VF, 7 ; LD Vx, a ; LD Vy, b ; <8xy0..8xy3>   and
\* LD VF, 7 ; LD Vx, a ; ADD Vx, nn
FlagFreeRoms ==
    { RomBytes(<< \h6F07, Word(6, r[1], 0, 0) + v[1], Word(6, r[2], 0, 0) + v[2],
                  Word(8, r[1], r[2], op) >>) :
        r \in {<<2, 3>>, <<2, 15>>, <<15, 3>>, <<2, 2>>},
        v \in {<<\h0C, \h0A>>, <<\hFF, \h01>>}, op \in 0..3 }
    \cup { RomBytes(<< \h6F07, Word(6, x, 0, 0) + a, Word(7, x, 0, 0) + nn >>) :
              x \in {2, 15}, a \in {\h80, \hFF}, nn \in {\h01, \h80, \hFF} }

\* JP nnn alone ; LD V0, a ; JP V0, nnn
JumpRoms ==
    { RomBytes(<< Word(1, 0, 0, 0) + nnn >>) : nnn \in {\h000, \h204, \hFFF} }
    \cup { RomBytes(<< Word(6, 0, 0, 0) + a, Word(11, 0, 0, 0) + nnn >>) :
              a \in {\h00, \h20, \hFF}, nnn \in {\h204, \h300, \hFFF} }

\* programs that reach past the end of memory, and beside each one that stops just
\* short of it: a fetch, LD B / LD [I] / LD Vx, [I] through I, the slice of DRW, and
\* I moved past the end by ADD I, Vx
FaultRoms ==
    { RomBytes(<< Word(1, 0, 0, 0) + nnn >>) : nnn \in {\hFFE, \hFFF} }
    \cup { RomBytes(<<\h60FF, \hBFFF>>) }
    \cup { RomBytes(<< \h607B, Word(10, 0, 0, 0) + addr, \hF033 >>) :
              addr \in {\hFFD, \hFFE, \hFFF} }
    \cup { RomBytes(<< \h6011, \h6122, \h6233, Word(10, 0, 0, 0) + addr, w >>) :
              addr \in {\hFFD, \hFFE, \hFFF}, w \in {\hF255, \hF265} }
    \cup { RomBytes(<< Word(10, 0, 0, 0) + addr, Word(13, 0, 0, n) >>) :
              addr \in {\hFFB, \hFFE}, n \in {0, 5} }
    \cup { RomBytes(<< \hAFFF, \h60FF, \hF01E, w >>) :
              w \in {\hF055, \hF065, \hF033, \hD000, \hD001} }

RunRoms ==
    AluRoms \cup StoreRoms \cup LoadRoms \cup DrawRoms \cup SkipRoms \cup BcdRoms
    \cup FontRoms \cup RndRoms \cup FlagFreeRoms \cup JumpRoms

\* one word per arm of the match, and words no arm takes
ProbeWords ==
    { \h00E0, \h00EE, \h1208, \h2208, \h3000, \h3001, \h4000, \h4001, \h5010,
      \h6033, \h7001, \h8100, \h8101, \h8102, \h8103, \h8104, \h8105, \h8106,
      \h8107, \h810E, \h9010, \hA222, \hB204, \hC0FF, \hD005, \hE09E, \hE0A1,
      \hF107, \hF10A, \hF015, \hF018, \hF01E, \hF029, \hF033, \hF155, \hF165,
      \h0000, \h5011, \h8108, \hE000, \hF000 }

\* a call to itself until the stack is full; two nested calls and their returns;
\* sixteen calls, each to the next word, then RET
CallRoms ==
    { RomBytes(<<\h2200>>),
      RomBytes(<<\h2204, \h0000, \h2208, \h00EE, \h00EE>>),
      RomBytes([k \in 1..STACKSIZE |-> \h2200 + 2 * k] \o <<\h00EE>>) }

\* a probe word alone; after LD V0, 5; and programs that call and return, load the
\* timers (DT = 1 and ST = 2, then two more instructions), test a key that does not
\* exist, and wait for a key
HostRoms ==
    { RomBytes(<<w>>) : w \in ProbeWords }
    \cup { RomBytes(<<\h6005, w>>) : w \in {\h5010, \h9010, \hB204, \hE09E, \hE0A1} }
    \cup CallRoms
    \cup { RomBytes(<<\h6001, \hF015, \h6002, \hF018, \h7101, \h7101>>),
           RomBytes(<<\h2204, \h0000, \h00EE>>),
           RomBytes(<<\h6003, \hF015, \hF018, \hF107>>),
           RomBytes(<<\h61FF, \hE19E>>),
           RomBytes(<<\hF10A, \h7101>>) }

\* the words that tell the arms apart: class 0, and the classes E and F that are
\* matched on nn, with every low byte; the classes 5, 8 and 9 that are matched on n
\* with every low byte; the classes matched on c alone with a few; DRW with sprites
\* of up to six rows
DispatchWords ==
    { Word(0, x, 0, 0) + nn : x \in {0, 1}, nn \in 0..255 }
    \cup { Word(c, x, 0, 0) + nn : c \in {\hE, \hF}, x \in {1, 15}, nn \in 0..255 }
    \cup { Word(c, 1, 0, 0) + nn : c \in {5, 8, 9}, nn \in 0..255 }
    \cup { Word(c, x, 0, 0) + nn : c \in {1, 2, 3, 4, 6, 7, \hA, \hB, \hC},
                                   x \in {0, 15}, nn \in {\h00, \h0E, \hE0, \hFF} }
    \cup { Word(\hD, x, y, n) : x \in {0, 1, 15}, y \in {0, 15}, n \in 0..6 }

DispatchRoms == { RomBytes(<<w>>) : w \in DispatchWords }

\* CLS alone and twice; LD Vx, a ; LD I, addr ; DRW Vx, Vy, 5 ; CLS
ClsRoms ==
    { RomBytes(<<\h00E0>>), RomBytes(<<\h00E0, \h00E0>>) }
    \cup { RomBytes(<< Word(6, r[1], 0, 0) + a, Word(10, 0, 0, 0) + addr,
                       Word(13, r[1], r[2], 5), \h00E0 >>) :
             r \in {<<0, 1>>, <<15, 1>>}, a \in {\h00, \h3E}, addr \in {\h000, \h005} }

KeyIds == {0, 5}

SpriteInputs == { <<\hE7, \hAA, \h81>>, <<\hC0>>, <<\h80>>, <<\hFF, \h01>> }

PosInputs == { <<0, 0>>, <<63, 30>>, <<124, 63>>, <<1, 0>> }

FillInputs == {\hFF, \hAA}

\* the first cell, which holds a font byte, two words that overlap, the last cell
WriteAddrs == {\h000, \h300, \h301, \hFFF}

WriteBytes == {\h00, \h10}

WriteWords == {\h1122, \hFF00}

\* buffers of zero to six bytes, none of them a byte of the font
LoadInputs ==
    { SubSeq(<<\hAB, \hCD, \hEF, \h01, \h23, \h45>>, 1, n) : n \in 0..6 }

\* the start of main.rs, the font, an odd address, and the last four cells
LoadStarts == {\h200, \h000, \h04F, \hFFC}

-----------------------------------------------------------------------------
(* Specifications.                                                          *)

Init == \E prof \in Profiles : InitChip(U64(DefaultSeed), prof)

\* the host of main.rs: load the ROM, set PC, then cycles, timer ticks and key events
Next ==
    \/ \E rom \in HostRoms : LoadRom(rom, StartAddr)
    \/ SetPc(StartAddr)
    \/ Cycle
    \/ CycleTimers
    \/ \E key \in KeyIds : KeyPress(key)
    \/ \E key \in KeyIds : KeyUnpress(key)

Spec == Init /\ [][Next]_vars

\* the run_code harness of the chip.rs tests: load a program, set PC, cycle
NextRun ==
    \/ \E rom \in RunRoms : LoadRom(rom, StartAddr)
    \/ SetPc(StartAddr)
    \/ Cycle

InitRun == \E prof \in AllProfiles : InitChip(U64(DefaultSeed), prof)

SpecRun == InitRun /\ [][NextRun]_vars

\* the Framebuffer tests: a new or filled frame, then draw_sprite calls
NextDraw ==
    \/ \E sprite \in SpriteInputs, pos \in PosInputs : DrawSprite(sprite, pos[1], pos[2])
    \/ \E v \in FillInputs : FillFrame(v)

InitDraw == InitChip(U64(DefaultSeed), ProfileModern)

SpecDraw == InitDraw /\ [][NextDraw]_vars

\* one instruction word at 0x200, then cycles
NextDispatch ==
    \/ \E rom \in DispatchRoms : LoadRom(rom, StartAddr)
    \/ SetPc(StartAddr)
    \/ Cycle

InitDispatch == InitChip(U64(DefaultSeed), ProfileOriginal)

SpecDispatch == InitDispatch /\ [][NextDispatch]_vars

\* a frame that is empty, or filled as by fill_frame_u8, then a program that clears it
NextCls ==
    \/ \E v \in FillInputs : FillFrame(v)
    \/ \E rom \in ClsRoms : LoadRom(rom, StartAddr)
    \/ SetPc(StartAddr)
    \/ Cycle

SpecCls == Init /\ [][NextCls]_vars

\* the Ram tests: byte and word writes
NextRam ==
    \/ \E addr \in WriteAddrs, value \in WriteBytes : WriteU8(addr, value)
    \/ \E addr \in WriteAddrs, v \in WriteWords : WriteU16(addr, v)

SpecRam == InitDraw /\ [][NextRam]_vars

\* a frame that is empty or filled, then load_rom of any buffer at any start
NextLoad ==
    \/ \E v \in FillInputs : FillFrame(v)
    \/ \E rom \in LoadInputs, start \in LoadStarts : LoadRom(rom, start)

SpecLoad == Init /\ [][NextLoad]_vars

\* the tests of ADD I, Vx and LD I, nnn: I set by hand to a value of the tests, the
\* last address of memory or one of the last values of a u16, then a program:
\* LD Vx, v ; ADD I, Vx   or   LD I, nnn
NextAddI ==
    \/ \E v \in {\h222, \h1A30, \h1AF0, \hFFF, \hFF00, \hFFFF} : SetRegI(v)
    \/ \E x \in {0, 2, 15}, v \in {\h00, \h01, \h22, \hFF} :
            LoadRom(RomBytes(<< Word(6, x, 0, 0) + v, Word(15, x, 1, 14) >>), StartAddr)
    \/ \E nnn \in {\h000, \h001, \h222, \hFFF} :
            LoadRom(RomBytes(<< Word(10, 0, 0, 0) + nnn >>), StartAddr)
    \/ SetPc(StartAddr)
    \/ Cycle

SpecAddI == Init /\ [][NextAddI]_vars

\* the seeds of the tests rnd_vx_nn_0 to rnd_vx_nn_3, lowest byte first, each with
\* the value of V2 the test asserts after RND V2, 0x55
RndTests ==
    { << <<\h08, \h07, \h06, \h05, \h04, \h03, \h02, \h01>>, \h10 >>,
      << <<\hF0, \hDE, \hBC, \h9A, \h78, \h56, \h34, \h12>>, \h00 >>,
      << <<\h31, \hCF, \h8B, \h3F, \h32, \h00, \hB4, \hA3>>, \h04 >>,
      << <<\h02, \hF0, \h98, \hBE, \hDE, \h43, \hA4, \h0B>>, \h01 >> }

\* the tests of RND: the program of the tests and programs of two RND
NextRnd ==
    \/ \E rom \in RndRoms \cup {RomBytes(<<\hC255>>)} : LoadRom(rom, StartAddr)
    \/ SetPc(StartAddr)
    \/ Cycle

\* machines made by new_seed with the seeds of the tests, with the default seed, and
\* with 0 and 0x10000, which differ above the low 16 bits only
SpecRnd ==
    /\ \E seed \in {t[1] : t \in RndTests} \cup {U64(DefaultSeed), U64(0), U64(65536)},
          prof \in Profiles : InitChip(seed, prof)
    /\ [][NextRnd]_vars

\* programs that run into the end of memory, and loads of buffers that end before,
\* at and past it
NextFault ==
    \/ \E rom \in FaultRoms : LoadRom(rom, StartAddr)
    \/ \E n \in {2, 4, 5, 6}, start \in {\hFFC, \hFFD, \hFFF} :
            LoadRom(SubSeq(<<\hAB, \hCD, \hEF, \h01, \h23, \h45>>, 1, n), start)
    \/ SetPc(StartAddr)
    \/ Cycle

SpecFault == InitRun /\ [][NextFault]_vars

\* programs that index the keypad and the sprite table by a register, and key
\* events with any key number.  The programs are LD V1, v ; SKP V1 / SKNP V1 /
\* LD F, V1 with v a key or a digit, and with values whose low nibble is one
NextIndex ==
    \/ \E v \in {\h0F, \h10, \h1F, \hFF}, w \in {\hE19E, \hE1A1, \hF129} :
            LoadRom(RomBytes(<< \h6100 + v, w >>), StartAddr)
    \/ SetPc(StartAddr)
    \/ Cycle
    \/ \E key \in {\h0F, \h10, \h1F} : KeyPress(key)
    \/ \E key \in {\h0F, \h10, \h1F} : KeyUnpress(key)

SpecIndex == InitDispatch /\ [][NextIndex]_vars

\* the loop of main with a program that waits for a key: cycle() is called on every
\* turn, timer ticks and key events come between.  The programs are
\* LD V0, 3 ; LD DT, V0 ; LD ST, V0 ; LD V1, K ; JP to itself   and
\* LD V1, K ; JP back to the wait
NextWait ==
    \/ \E rom \in { RomBytes(<<\h6003, \hF015, \hF018, \hF10A, \h1208>>),
                    RomBytes(<<\hF10A, \h1200>>) } : LoadRom(rom, StartAddr)
    \/ SetPc(StartAddr)
    \/ HostCycle
    \/ CycleTimers
    \/ \E key \in KeyIds : KeyPress(key)
    \/ \E key \in KeyIds : KeyUnpress(key)

\* main calls chip.cycle() on every turn of its loop: whenever the machine runs and
\* the last call on record is not the cycle() of this state, that cycle() comes
SpecWait ==
    /\ Init /\ [][NextWait]_vars
    /\ WF_last(Running /\ last' = Call("cycle", Fetched(self), <<regs.pc>>))

-----------------------------------------------------------------------------
(* Properties.  A step is described by the state before it (unprimed) and   *)
(* after it (primed); the instruction word is read from memory at the PC of *)
(* the state before and taken apart here by division, apart from Instr.     *)

\* the step is a cycle() that returned
CycleDone == last'.op = "cycle" /\ panic' = "none"

\* the step is a cycle() that returned or panicked
CycleCalled == last'.op = "cycle"

\* the word at the PC before the step, and its fields
OpWord == ram[regs.pc] * 256 + ram[regs.pc + 1]
OpC == OpWord \div 4096
OpX == (OpWord \div 256) % 16
OpY == (OpWord \div 16) % 16
OpN == OpWord % 16
OpNN == OpWord % 256
OpNNN == OpWord % 4096

\* the step is a returned cycle() of an 8xyN instruction
Alu(n) == CycleDone /\ OpC = 8 /\ OpN = n

\* the step is a returned cycle() of an Fxnn instruction
Fx(nn) == CycleDone /\ OpC = 15 /\ OpNN = nn

\* what the last call was, in the state after it
Did(op, code) == last.op = op /\ last.code = code /\ panic = "none"

\* C1: a cycle() that returns leaves PC at nnn after 1nnn and 2nnn, at the popped
\* stack entry after 00EE, at V0 + nnn after Bnnn, at p + 4 after a skip whose
\* condition holds, at p after Fx0A with no key pressed, and at p + 2 otherwise.
C1_ExpectedPc ==
    LET p == regs.pc
        vx == regs.vx[OpX]
        vy == regs.vx[OpY]
        skip(cond) == IF cond THEN p + 4 ELSE p + 2
    IN  CASE OpWord = \h00EE -> stack[regs.sp - 1]
          [] OpC \in {1, 2} -> OpNNN
          [] OpC = \hB -> regs.vx[0] + OpNNN
          [] OpC = 3 -> skip(vx = OpNN)
          [] OpC = 4 -> skip(vx # OpNN)
          [] OpC = 5 -> skip(vx = vy)
          [] OpC = 9 -> skip(vx # vy)
          [] OpC = \hE /\ OpNN = \h9E -> skip(keys[vx])
          [] OpC = \hE /\ OpNN = \hA1 -> skip(~keys[vx])
          [] OpC = \hF /\ OpNN = \h0A ->
                IF \A k \in 0..(NKEYS - 1) : ~keys[k] THEN p ELSE p + 2
          [] OTHER -> p + 2

C1_PcAfterCycle == [][CycleDone => regs'.pc = C1_ExpectedPc]_vars

\* a key skip was taken: SKP V0 with key 0 held moved PC from p to p + 4
C1_Witness ==
    /\ Did("cycle", \hE09E)
    /\ keys[0]
    /\ regs.pc = last.args[1] + 4

\* C2: after 8xy4, VF is 1 iff Vx + Vy > 255 and 0 otherwise, and for x # F the
\* new Vx is (Vx + Vy) mod 256.
C2_AddCarry ==
    [][Alu(4) =>
        LET sum == regs.vx[OpX] + regs.vx[OpY] IN
        /\ regs'.vx[15] = (IF sum > 255 THEN 1 ELSE 0)
        /\ OpX # 15 => regs'.vx[OpX] = sum % 256]_vars

\* ADD V2, V3 with V2 = 0xFF and V3 = 0x01 gave V2 = 0x00 and VF = 1
C2_Witness ==
    /\ Did("cycle", \h8234)
    /\ regs.vx[3] = 1 /\ regs.vx[2] = 0 /\ regs.vx[15] = 1

\* C3: 8xy5 sets VF = 1 iff Vx >= Vy and, for x # F, Vx = (Vx - Vy) mod 256;
\* 8xy7 sets VF = 1 iff Vy >= Vx and, for x # F, Vx = (Vy - Vx) mod 256.
C3_SubBorrow ==
    [][/\ Alu(5) =>
            /\ regs'.vx[15] = (IF regs.vx[OpX] >= regs.vx[OpY] THEN 1 ELSE 0)
            /\ OpX # 15 => regs'.vx[OpX] = (regs.vx[OpX] - regs.vx[OpY]) % 256
       /\ Alu(7) =>
            /\ regs'.vx[15] = (IF regs.vx[OpY] >= regs.vx[OpX] THEN 1 ELSE 0)
            /\ OpX # 15 => regs'.vx[OpX] = (regs.vx[OpY] - regs.vx[OpX]) % 256]_vars

\* SUBN V2, V3 with V2 = 0xFF and V3 = 0x01 borrowed: V2 = 0x02 and VF = 0
C3_Witness ==
    /\ Did("cycle", \h8237)
    /\ regs.vx[3] = 1 /\ regs.vx[2] = 2 /\ regs.vx[15] = 0

\* the flag an arithmetic or shift instruction computes from the registers before it
C4_Flag ==
    LET vx == regs.vx[OpX]
        vy == regs.vx[OpY]
    IN  CASE OpN = 4 -> IF vx + vy > 255 THEN 1 ELSE 0
          [] OpN = 5 -> IF vx >= vy THEN 1 ELSE 0
          [] OpN = 7 -> IF vy >= vx THEN 1 ELSE 0
          [] OpN = 6 -> (IF profile.op_8xy6_use_vy THEN vy ELSE vx) % 2
          [] OpN = \hE -> ((IF profile.op_8xye_use_vy THEN vy ELSE vx) \div 128) % 2

\* C4: for every x, x = F included, VF after 8xy4, 8xy5, 8xy6, 8xy7, 8xyE and Dxyn
\* is the flag (carry, no borrow, the bit shifted out, the collision), 0 or 1, and
\* never the arithmetic or shift result.
C4_FlagWrittenLast ==
    [][/\ (CycleDone /\ OpC = 8 /\ OpN \in {4, 5, 6, 7, \hE}) => regs'.vx[15] = C4_Flag
       /\ (CycleDone /\ OpC = \hD) => regs'.vx[15] = (IF colisions' THEN 1 ELSE 0)]_vars

\* C5: 8xy6 for x # F: with op_8xy6_use_vy, Vx becomes Vy >> 1 and VF becomes
\* Vy & 1; without it, Vx becomes Vx >> 1 and VF the old Vx & 1, whatever Vy is.
\* No register other than Vx and VF changes.
C5_Shr ==
    [][(Alu(6) /\ OpX # 15) =>
        LET src == IF profile.op_8xy6_use_vy THEN regs.vx[OpY] ELSE regs.vx[OpX] IN
        regs'.vx = [regs.vx EXCEPT ![OpX] = src \div 2, ![15] = src % 2]]_vars

\* SHR V2, V3 without the copy: V2 = 0x01 gave V2 = 0 and VF = 1 while V3 = 0xFE
C5_Witness ==
    /\ Did("cycle", \h8236)
    /\ ~profile.op_8xy6_use_vy
    /\ regs.vx[3] = \hFE /\ regs.vx[2] = 0 /\ regs.vx[15] = 1

\* C6: 8xyE for x # F: with op_8xye_use_vy, Vx becomes (Vy << 1) mod 256 and VF is
\* 1 iff bit 7 of Vy was set; without it, Vx becomes (Vx << 1) mod 256 and VF is 1
\* iff bit 7 of the old Vx was set, whatever Vy is.  No other register changes.
C6_Shl ==
    [][(Alu(14) /\ OpX # 15) =>
        LET src == IF profile.op_8xye_use_vy THEN regs.vx[OpY] ELSE regs.vx[OpX] IN
        regs'.vx = [regs.vx EXCEPT ![OpX] = (src * 2) % 256,
                                   ![15] = IF src >= 128 THEN 1 ELSE 0]]_vars

\* SHL V2, V3 with the copy: V3 = 0xFF gave V2 = 0xFE and VF = 1
C6_Witness ==
    /\ Did("cycle", \h823E)
    /\ profile.op_8xye_use_vy
    /\ regs.vx[3] = \hFF /\ regs.vx[2] = \hFE /\ regs.vx[15] = 1

\* C7: Fx55 with I = a and a + x inside memory: memory[a + k] = Vk for k in 0..x,
\* every other byte and every V register is unchanged, and I is a + x + 1 with
\* op_fx55_store_i and a without it.
C7_StoreRegs ==
    [][(Fx(\h55) /\ regs.i + OpX < RAMSIZE) =>
        LET a == regs.i IN
        /\ \A k \in 0..OpX : ram'[a + k] = regs.vx[k]
        /\ \A addr \in 0..(RAMSIZE - 1) : addr \notin a..(a + OpX) => ram'[addr] = ram[addr]
        /\ regs'.vx = regs.vx
        /\ regs'.i = (IF profile.op_fx55_store_i THEN a + OpX + 1 ELSE a)]_vars

\* LD [I], V2 at I = 0x04E stored 0x11, 0x22, 0x00 over the end of the sprite table
\* and moved I to 0x051
C7_Witness ==
    /\ Did("cycle", \hF255)
    /\ ram[\h04E] = \h11 /\ ram[\h04F] = \h22 /\ ram[\h050] = 0
    /\ ram[\h04D] = \hF0
    /\ regs.i = \h051

\* C8: Fx65 with I = a and a + x inside memory: Vk = memory[a + k] for k in 0..x,
\* every Vj with j > x and all of memory is unchanged, and I is a + x + 1 with
\* op_fx65_store_i and a without it.
C8_LoadRegs ==
    [][(Fx(\h65) /\ regs.i + OpX < RAMSIZE) =>
        LET a == regs.i IN
        /\ \A k \in 0..OpX : regs'.vx[k] = ram[a + k]
        /\ \A j \in (OpX + 1)..(NVREGS - 1) : regs'.vx[j] = regs.vx[j]
        /\ ram' = ram
        /\ regs'.i = (IF profile.op_fx65_store_i THEN a + OpX + 1 ELSE a)]_vars

\* LD V2, [I] at I = 0x000 loaded the first rows of digit 0, kept VF and left I alone
C8_Witness ==
    /\ Did("cycle", \hF265)
    /\ ~profile.op_fx65_store_i
    /\ regs.vx[0] = \h60 /\ regs.vx[1] = \h90 /\ regs.vx[2] = \h90
    /\ regs.vx[15] = \h77
    /\ regs.i = \h000

\* the step is a draw_sprite call on the Framebuffer
DrawCalled == last'.op = "draw_sprite"

\* whether draw_sprite(sprite, x, y) flips the cell at (row, col): the start wraps,
\* then row n of the sprite lies on row y0 + n and its bit b (MSB first) on column
\* x0 + b, and what falls past the bottom or the right edge is on no cell at all
Flips(sprite, x, y, row, col) ==
    LET n == row - (y % DISPLAY_HEIGHT)
        b == col - (x % DISPLAY_WIDTH)
    IN  /\ n >= 0 /\ n < Len(sprite)
        /\ b >= 0 /\ b < 8
        /\ (sprite[n + 1] \div Pow2(7 - b)) % 2 = 1

\* the rows of the frame a sprite of `len` rows drawn at row y can touch
SpriteRows(len, y) ==
    { row \in 0..(DISPLAY_HEIGHT - 1) :
        row >= y % DISPLAY_HEIGHT /\ row < (y % DISPLAY_HEIGHT) + len }

Cols == 0..(DISPLAY_WIDTH - 1)

\* C9: draw_sprite flips the cell at row y0 + n, column x0 + b iff bit b (MSB first)
\* of bytes[n] is 1 and the cell is inside the frame; every other cell is unchanged.
C9_DrawFlips ==
    [][DrawCalled =>
        LET sprite == last'.args[1]
            x == last'.args[2]
            y == last'.args[3]
        IN  \A row \in 0..(DISPLAY_HEIGHT - 1) :
                IF row \in SpriteRows(Len(sprite), y)
                THEN \A col \in Cols :
                        framebuffer'[row][col] =
                            IF Flips(sprite, x, y, row, col)
                            THEN 1 - framebuffer[row][col]
                            ELSE framebuffer[row][col]
                ELSE framebuffer'[row] = framebuffer[row]]_vars

\* the first draw, at (124, 63): the start wrapped to (60, 31), only the first row
\* and its first four columns were drawn, nothing came out on the opposite edges
C9_Witness ==
    /\ last.op = "draw_sprite" /\ last.args = << <<\hE7, \hAA, \h81>>, 124, 63 >>
    /\ events = 1
    /\ framebuffer[31][60] = 1 /\ framebuffer[31][61] = 1
    /\ framebuffer[31][62] = 1 /\ framebuffer[31][63] = 0
    /\ framebuffer[31][0] = 0 /\ framebuffer[0][60] = 0 /\ framebuffer[0][0] = 0

\* C10: draw_sprite reports a collision iff at least one cell it flipped was 1
\* immediately before the flip.
C10_CollisionAccumulates ==
    [][DrawCalled =>
        LET sprite == last'.args[1]
            x == last'.args[2]
            y == last'.args[3]
        IN  colisions' <=>
                \E row \in SpriteRows(Len(sprite), y), col \in Cols :
                    /\ Flips(sprite, x, y, row, col)
                    /\ framebuffer[row][col] = 1]_vars

\* C11: drawing the same sprite at the same position again, immediately after a
\* draw, restores the framebuffer to its content before that draw; clipped sprites
\* and wrapped start coordinates included.
C11_DrawTwiceRestores ==
    [][DrawCalled =>
        draw_sprite(self', last'.args[1], last'.args[2], last'.args[3]).framebuffer
            = framebuffer]_vars

\* two draws of the 3-row sprite at (63, 30), where it is clipped to one column and
\* two rows, on a new frame: the frame is empty again
C11_Witness ==
    /\ last.op = "draw_sprite" /\ last.args = << <<\hE7, \hAA, \h81>>, 63, 30 >>
    /\ events = 2
    /\ framebuffer = FrameNew
    /\ colisions

\* C12: a cycle() of Fx0A at p with no key pressed leaves PC = p and the registers,
\* the stack, memory and the framebuffer as they were, however often it is repeated;
\* with a key pressed it sets PC = p + 2 and Vx to the lowest pressed key's index.
C12_WaitForKey ==
    [][Fx(\h0A) =>
        IF \A k \in 0..(NKEYS - 1) : ~keys[k]
        THEN /\ regs' = regs
             /\ stack' = stack /\ ram' = ram /\ framebuffer' = framebuffer
        ELSE LET low == CHOOSE k \in 0..(NKEYS - 1) :
                            keys[k] /\ \A j \in 0..(k - 1) : ~keys[j]
             IN  regs' = [regs EXCEPT !.pc = @ + 2, !.vx[OpX] = low]]_vars

\* LD V1, K at 0x200 waited for two cycles, then key 5 was pressed: V1 = 5, PC = 0x202
C12_Witness ==
    /\ Did("cycle", \hF10A)
    /\ cycles >= 3
    /\ keys[5] /\ ~keys[0]
    /\ regs.vx[1] = 5
    /\ regs.pc = \h202

\* the words the opcode table does not handle
UnhandledWord(w) ==
    LET c == w \div 4096
        n == w % 16
        nn == w % 256
    IN  \/ c = 0 /\ w \notin {\h00E0, \h00EE}
        \/ c \in {5, 9} /\ n # 0
        \/ c = 8 /\ n \in {8, 9, \hA, \hB, \hC, \hD, \hF}
        \/ c = \hE /\ nn \notin {\h9E, \hA1}
        \/ c = \hF /\ nn \notin {\h07, \h0A, \h15, \h18, \h1E, \h29, \h33, \h55, \h65}

\* C13: every fetched word matches at most one arm of the match in cycle(); the
\* words matching none are exactly those outside the opcode table, and on them
\* cycle() panics with the unknown-opcode error, having changed nothing but the PC
\* it advanced before the match; any other word is taken by its one arm.
C13_Dispatch ==
    [][(CycleCalled /\ CanFetch(self)) =>
        LET instr == Instr(OpWord)
            m == Matching(instr)
        IN  /\ Cardinality(m) <= 1
            /\ (m = {}) <=> UnhandledWord(OpWord)
            /\ IF m = {}
               THEN /\ panic' = "unknown_opcode"
                    /\ regs' = [regs EXCEPT !.pc = @ + 2]
                    /\ ram' = ram /\ framebuffer' = framebuffer
                    /\ stack' = stack /\ keys' = keys
               ELSE /\ panic' # "unknown_opcode"
                    /\ m = {Handler(instr)}]_vars

\* 8xyF, which no arm takes, was fetched at 0x200 and the cycle panicked
C13_Witness ==
    /\ last.op = "cycle" /\ last.code = \h810F
    /\ panic = "unknown_opcode"
    /\ regs.pc = \h202 /\ regs.vx[1] = 0

\* C14: 2nnn at p with SP = s < 16 completes, stores p + 2 in stack[s], sets
\* SP = s + 1 and PC = nnn; 00EE with SP = s > 0 completes, sets SP = s - 1 and
\* PC = stack[s - 1] and leaves the stack entries alone.  A call's return address
\* therefore stays in its slot until the matching return pops it.
C14_CallRet ==
    [][/\ (CycleCalled /\ CanFetch(self) /\ OpC = 2 /\ regs.sp < STACKSIZE) =>
            /\ panic' = "none"
            /\ stack' = [stack EXCEPT ![regs.sp] = regs.pc + 2]
            /\ regs' = [regs EXCEPT !.sp = @ + 1, !.pc = OpNNN]
       /\ (CycleCalled /\ CanFetch(self) /\ OpWord = \h00EE /\ regs.sp > 0) =>
            /\ panic' = "none"
            /\ stack' = stack
            /\ regs' = [regs EXCEPT !.sp = @ - 1, !.pc = stack[regs.sp - 1]]]_vars

\* CALL 0x204 at 0x200, CALL 0x208 at 0x204, RET at 0x208 (back to 0x206), RET at
\* 0x206: the machine is back after the first CALL with SP = 0
C14_Witness ==
    /\ Did("cycle", \h00EE)
    /\ cycles = 4
    /\ regs.pc = \h202 /\ regs.sp = 0
    /\ stack[0] = \h202 /\ stack[1] = \h206

\* C15: after any sequence of completed calls SP is between 0 and 16 and equals the
\* number of completed CALLs minus the number of completed RETs.
C15_SpIsDepth ==
    panic = "none" => (regs.sp \in 0..STACKSIZE /\ regs.sp = depth)

\* sixteen nested calls completed: the stack is full
C15_Witness ==
    /\ Did("cycle", \h2200)
    /\ regs.sp = STACKSIZE /\ depth = STACKSIZE
    /\ stack[STACKSIZE - 1] = \h202

\* C16: cycle_timers() takes 1 from DT if DT > 0 and leaves it at 0 otherwise, and
\* does the same for ST independently; it changes nothing else.  k calls therefore
\* take DT from d to max(d - k, 0) and ST from s to max(s - k, 0).
C16_Timers ==
    [][last'.op = "cycle_timers" =>
        /\ panic' = "none"
        /\ regs' = [regs EXCEPT !.dt = IF @ > 0 THEN @ - 1 ELSE 0,
                                !.st = IF @ > 0 THEN @ - 1 ELSE 0]
        /\ ram' = ram /\ stack' = stack /\ keys' = keys
        /\ framebuffer' = framebuffer]_vars

\* DT = 1 and ST = 2 were loaded, then two ticks: DT stayed at 0 on the second,
\* which took ST to 0
C16_Witness ==
    /\ last.op = "cycle_timers" /\ events = 2
    /\ sound = [k |-> 2, ticks |-> 2]
    /\ regs.vx[0] = 2 /\ regs.dt = 0 /\ regs.st = 0

\* C17: once Fx18 has loaded ST = k, is_sound_on() is true until k calls of
\* cycle_timers() have happened and false from then on, whatever cycles and key
\* events come in between; before any Fx18 it is false.
C17_SoundOn ==
    panic = "none" => (is_sound_on(self) <=> sound.ticks < sound.k)

\* ST = 2 was loaded, a tick, another instruction, a tick: the sound is off
C17_Witness ==
    /\ last.op = "cycle_timers"
    /\ sound = [k |-> 2, ticks |-> 2]
    /\ cycles = 5
    /\ ~is_sound_on(self)

\* C18: for the word w that cycle() fetches, Instr::new(w) has opcode = w,
\* c = (w >> 12) & 0xF, x = (w >> 8) & 0xF, y = (w >> 4) & 0xF, n = w & 0xF,
\* nn = w & 0xFF and nnn = w & 0xFFF; the fields are those of w in base 16.
C18_Decode ==
    CanFetch(self) =>
        LET w == Fetched(self) IN
        Instr(w) = [ opcode |-> w,
                     c   |-> w \div 4096,
                     x   |-> (w \div 256) % 16,
                     y   |-> (w \div 16) % 16,
                     n   |-> w % 16,
                     nn  |-> w % 256,
                     nnn |-> w % 4096 ]

\* 0xEFA1 was fetched at 0x200 and decoded as SKNP VF: key V[F] = 0 is up, so the
\* cycle skipped
C18_Witness ==
    /\ Did("cycle", \hEFA1)
    /\ Instr(last.code).c = \hE /\ Instr(last.code).x = \hF
    /\ Instr(last.code).y = \hA /\ Instr(last.code).n = 1
    /\ Instr(last.code).nn = \hA1 /\ Instr(last.code).nnn = \hFA1
    /\ regs.pc = \h204

\* C19: a cycle() of 00E0 completes and leaves every framebuffer cell 0, whatever
\* the framebuffer held; of the registers it changes only PC, and it changes no
\* memory byte, key or stack entry.
C19_Cls ==
    [][(CycleCalled /\ CanFetch(self) /\ OpWord = \h00E0) =>
        /\ panic' = "none"
        /\ \A row \in 0..(DISPLAY_HEIGHT - 1), col \in 0..(DISPLAY_WIDTH - 1) :
                framebuffer'[row][col] = 0
        /\ regs' = [regs EXCEPT !.pc = @ + 2]
        /\ ram' = ram /\ keys' = keys /\ stack' = stack]_vars

\* the digit 5 was drawn at (0x3E, 0), with a collision on the filled frame, and
\* then CLS ran: the frame is empty and VF still holds the collision
C19_Witness ==
    /\ Did("cycle", \h00E0)
    /\ cycles = 4
    /\ regs.vx[0] = \h3E /\ regs.i = \h005 /\ regs.vx[15] = 1
    /\ regs.pc = \h208
    /\ framebuffer = FrameNew

\* C20: 3xnn skips iff Vx = nn, 4xnn iff Vx # nn, 5xy0 iff Vx = Vy and 9xy0 iff
\* Vx # Vy: PC ends at p + 4 on a skip and at p + 2 otherwise, the cycle completes,
\* and no register other than PC, no memory byte, stack entry, key or framebuffer
\* cell changes.
C20_Skips ==
    [][(/\ CycleCalled /\ CanFetch(self)
        /\ (OpC \in {3, 4} \/ (OpC \in {5, 9} /\ OpN = 0))) =>
        LET vx == regs.vx[OpX]
            vy == regs.vx[OpY]
            skips == CASE OpC = 3 -> vx = OpNN
                       [] OpC = 4 -> vx # OpNN
                       [] OpC = 5 -> vx = vy
                       [] OpC = 9 -> vx # vy
        IN  /\ panic' = "none"
            /\ regs' = [regs EXCEPT !.pc = IF skips THEN @ + 4 ELSE @ + 2]
            /\ ram' = ram /\ stack' = stack /\ keys' = keys
            /\ framebuffer' = framebuffer]_vars

\* V1 = 0xFF, V2 = 0x05, then SNE V1, 0x05 at 0x204: the next instruction was skipped
C20_Witness ==
    /\ Did("cycle", \h4105)
    /\ regs.vx[1] = \hFF /\ regs.vx[2] = \h05
    /\ regs.pc = \h208

\* C21: with Vx in 0..15, Ex9E skips (PC = p + 4) iff the most recent event of key
\* Vx was a press, and ExA1 skips iff it was not (a release, or no event at all);
\* otherwise PC = p + 2.  The cycle completes and changes neither the keypad nor
\* any register other than PC.
C21_KeySkips ==
    [][(/\ CycleCalled /\ CanFetch(self)
        /\ OpC = \hE /\ OpNN \in {\h9E, \hA1}
        /\ regs.vx[OpX] < NKEYS) =>
        LET pressed == keyev[regs.vx[OpX]] = "press"
            skips == IF OpNN = \h9E THEN pressed ELSE ~pressed
        IN  /\ panic' = "none"
            /\ regs' = [regs EXCEPT !.pc = IF skips THEN @ + 4 ELSE @ + 2]
            /\ keys' = keys]_vars

\* V0 = 5, two events on key 5 of which the last was a release, then SKNP V0 at
\* 0x202 skipped
C21_Witness ==
    /\ Did("cycle", \hE0A1)
    /\ regs.vx[0] = 5
    /\ keyev[5] = "unpress" /\ keyev[0] = "none" /\ events = 2
    /\ ~keys[5]
    /\ regs.pc = \h206

\* C22: key_press(k) sets key k and key_unpress(k) clears key k; either leaves the
\* other keys and all other state alone and gives the same state when repeated;
\* cycle() and cycle_timers() never change a key.
C22_Keypad ==
    [][/\ last'.op = "key_press" =>
            /\ keys' = [keys EXCEPT ![last'.args[1]] = TRUE]
            /\ key_press(self', last'.args[1]) = self'
       /\ last'.op = "key_unpress" =>
            /\ keys' = [keys EXCEPT ![last'.args[1]] = FALSE]
            /\ key_unpress(self', last'.args[1]) = self'
       /\ last'.op \in {"key_press", "key_unpress"} =>
            /\ panic' = "none"
            /\ regs' = regs /\ ram' = ram /\ stack' = stack
            /\ framebuffer' = framebuffer /\ rnd' = rnd
       /\ last'.op \in {"cycle", "cycle_timers"} => keys' = keys]_vars

\* key 0 was pressed and key 5 was released after it: key 0 is still set
C22_Witness ==
    /\ last.op = "key_unpress" /\ last.args = <<5>>
    /\ keyev[0] = "press" /\ keyev[5] = "unpress"
    /\ keys[0] /\ ~keys[5]
    /\ panic = "none"

\* C23: Fx33 with I = a and three bytes of memory from a: the cycle completes,
\* memory[a] = Vx / 100, memory[a+1] = (Vx / 10) mod 10, memory[a+2] = Vx mod 10,
\* each is a decimal digit and together they are Vx; I, the V registers and every
\* other memory byte are unchanged.
C23_Bcd ==
    [][(/\ CycleCalled /\ CanFetch(self)
        /\ OpC = \hF /\ OpNN = \h33
        /\ regs.i + 2 < RAMSIZE) =>
        LET v == regs.vx[OpX]
            a == regs.i
        IN  /\ panic' = "none"
            /\ ram' = [ram EXCEPT ![a] = v \div 100,
                                  ![a + 1] = (v \div 10) % 10,
                                  ![a + 2] = v % 10]
            /\ \A k \in 0..2 : ram'[a + k] \in 0..9
            /\ 100 * ram'[a] + 10 * ram'[a + 1] + ram'[a + 2] = v
            /\ regs' = [regs EXCEPT !.pc = @ + 2]]_vars

\* VF = 255 stored at the last three bytes of memory as 2, 5, 5
C23_Witness ==
    /\ Did("cycle", \hFF33)
    /\ regs.vx[15] = 255 /\ regs.i = \hFFD
    /\ ram[\hFFD] = 2 /\ ram[\hFFE] = 5 /\ ram[\hFFF] = 5

\* memory 0..79 holds the sixteen digit bitmaps, digit d from 5 * d on
FontInMemory(mem) ==
    \A d \in 0..(NSPRITES - 1), k \in 0..4 : mem[5 * d + k] = Sprites[d + 1][k + 1]

\* the recorded base address of digit d is 5 * d
FontAddrs(t) == \A d \in 0..(NSPRITES - 1) : t[d] = 5 * d

\* C24: after construction digit d's five bytes are at 5 * d, each with a zero low
\* nibble; the recorded base addresses stay 5 * d whatever is done; Fx29 with
\* Vx = d in 0..15 completes and sets I = 5 * d and nothing else but PC, and while
\* memory 0..79 is as constructed the five bytes at I are the bitmap of d.
C24_SpriteTable ==
    [][/\ last.op = "new" =>
            /\ FontInMemory(ram)
            /\ \A a \in 0..(5 * NSPRITES - 1) : ram[a] % 16 = 0
       /\ FontAddrs(sprite_addr) /\ FontAddrs(sprite_addr')
       /\ (/\ CycleCalled /\ CanFetch(self)
           /\ OpC = \hF /\ OpNN = \h29
           /\ regs.vx[OpX] < NSPRITES) =>
            LET d == regs.vx[OpX] IN
            /\ panic' = "none"
            /\ regs' = [regs EXCEPT !.pc = @ + 2, !.i = 5 * d]
            /\ ram' = ram
            /\ FontInMemory(ram) =>
                    \A k \in 0..4 : ram'[regs'.i + k] = Sprites[d + 1][k + 1]]_vars

\* LD F, VF with VF = 0xF: I = 75, where the bitmap of F is
C24_Witness ==
    /\ Did("cycle", \hFF29)
    /\ regs.vx[15] = 15 /\ regs.i = 75
    /\ ram[75] = \hF0 /\ ram[76] = \h80 /\ ram[79] = \h80

\* bit b of the byte v
Bit(v, b) == (v \div Pow2(b)) % 2

\* C25: the generator starts from the seed and only Cxnn moves it, by one output
\* each time, so the bytes drawn depend on nothing but the seed and the number of
\* Cxnn executed; Cxnn completes and sets Vx to that output's byte masked by nn
\* (no bit outside nn, 0 for nn = 0) and changes nothing else but PC.  Different
\* seeds give different generators, and with the seeds of the tests RND V2, 0x55
\* gives the values the tests assert.
\* Under one build a cycle() has one outcome, so two machines in the same state
\* stay in the same state.
C25_Rnd ==
    [][/\ last.op = "new" =>
            LET seeds == {t[1] : t \in RndTests} \cup {U64(DefaultSeed), U64(0), U64(65536)}
            IN  /\ \E seed \in seeds : rnd = RandNew(seed)
                /\ \A s, t \in seeds : s # t => RandNew(s) # RandNew(t)
       /\ \A t \in RndTests :
            (CycleCalled /\ CanFetch(self) /\ OpWord = \hC255 /\ rnd = RandNew(t[1])) =>
                regs'.vx[2] = t[2]
       /\ (CycleCalled /\ CanFetch(self) /\ OpC = \hC) =>
            LET byte == RandByte(rnd)
                vx == regs'.vx[OpX]
            IN  /\ panic' = "none"
                /\ rnd' = RandNext(rnd)
                /\ \A b \in 0..7 : Bit(vx, b) = Bit(byte, b) * Bit(OpNN, b)
                /\ OpNN = 0 => vx = 0
                /\ regs' = [regs EXCEPT !.pc = @ + 2, !.vx[OpX] = vx]
                /\ ram' = ram /\ stack' = stack /\ framebuffer' = framebuffer
       /\ ~(CycleCalled /\ CanFetch(self) /\ OpC = \hC) => rnd' = rnd
       /\ CycleCalled =>
            \A r \in cycle_outcomes(self) : r.build = build' => r = self']_vars

\* RND V0, 0x0F and RND V1, 0x00 ran: V0 has no high bit, V1 is 0, and two outputs
\* of the generator are gone
C25_Witness ==
    /\ Did("cycle", \hC100)
    /\ cycles = 2
    /\ rnd = RandNext(RandNext(RandNew(U64(DefaultSeed))))
    /\ regs.vx[0] = RandByte(RandNew(U64(DefaultSeed))) % 16
    /\ regs.vx[1] = 0

\* whether two profiles agree on the toggle that the handler h reads, if it reads one
SameToggle(h, p, q) ==
    CASE h = "8xy6" -> p.op_8xy6_use_vy = q.op_8xy6_use_vy
      [] h = "8xyE" -> p.op_8xye_use_vy = q.op_8xye_use_vy
      [] h = "Fx55" -> p.op_fx55_store_i = q.op_fx55_store_i
      [] h = "Fx65" -> p.op_fx65_store_i = q.op_fx65_store_i
      [] OTHER -> TRUE

\* C26: the presets are all-true (original) and all-false (modern); no call changes
\* the profile; and the cycle() just taken, started from the same state under
\* another profile, ends in the same state, unless the instruction is 8xy6, 8xyE, Fx55 or Fx65 and
\* the two profiles differ in that instruction's own toggle.
C26_QuirkIsolation ==
    [][/\ \A t \in DOMAIN ProfileOriginal : ProfileOriginal[t] /\ ~ProfileModern[t]
       /\ profile' = profile
       /\ CycleCalled =>
            LET h == Handler(Instr(Fetched(self)))
                oc == build' = "debug"
            IN  \A q \in ToggleSettings :
                SameToggle(h, profile, q) =>
                    cycle([self EXCEPT !.profile = q], oc)
                        = [cycle(self, oc) EXCEPT !.profile = q]]_vars

\* ADD V2, V3 with 0xFF + 0xFF under a profile that is neither preset
C26_Witness ==
    /\ Did("cycle", \h8234)
    /\ profile = ProfileShlFx65
    /\ regs.vx[2] = \hFE /\ regs.vx[3] = \hFF /\ regs.vx[15] = 1

\* C27: a write_u16(a, v) that returned leaves v at read_u16(a), its high byte at
\* read_u8(a) and its low byte at read_u8(a + 1), and changes no other cell; a
\* write_u8(a, b) that returned leaves b at read_u8(a) and changes no other cell.
C27_RamRoundTrip ==
    [][/\ (last'.op = "write_u16" /\ panic' = "none") =>
            LET a == last'.args[1]
                v == last'.args[2]
            IN  /\ read_u16(self', a) = v
                /\ read_u8(self', a) = v \div 256
                /\ read_u8(self', a + 1) = v % 256
                /\ \A o \in 0..(RAMSIZE - 1) : o \notin {a, a + 1} => ram'[o] = ram[o]
       /\ (last'.op = "write_u8" /\ panic' = "none") =>
            LET a == last'.args[1]
                b == last'.args[2]
            IN  /\ read_u8(self', a) = b
                /\ \A o \in 0..(RAMSIZE - 1) : o # a => ram'[o] = ram[o]]_vars

\* 0x1122 written at 0x301 over the second byte of an earlier word at 0x300
C27_Witness ==
    /\ last.op = "write_u16" /\ last.args = <<\h301, \h1122>>
    /\ ram[\h300] = \hFF /\ ram[\h301] = \h11 /\ ram[\h302] = \h22

\* C28: a load_rom(rom, start) that returned leaves rom[2k] * 256 + rom[2k + 1] at
\* read_u16(start + 2k) for every k below half the length (rounded down), hence
\* rom[i] at start + i for every i below twice that; every cell outside that range
\* is unchanged, the last byte of an odd-length buffer not being stored; registers,
\* framebuffer and keys are unchanged.
C28_LoadRom ==
    [][(last'.op = "load_rom" /\ panic' = "none") =>
            LET start == last'.args[1]
                rom == last'.args[2]
                n == Len(rom) \div 2
            IN  /\ \A k \in 0..(n - 1) :
                        read_u16(self', start + 2 * k)
                            = rom[2 * k + 1] * 256 + rom[2 * k + 2]
                /\ \A i \in 0..(2 * n - 1) : ram'[start + i] = rom[i + 1]
                /\ \A a \in 0..(RAMSIZE - 1) :
                        (a < start \/ a >= start + 2 * n) => ram'[a] = ram[a]
                /\ regs' = regs
                /\ framebuffer' = framebuffer
                /\ keys' = keys]_vars

\* three bytes loaded over the font into a machine whose frame was filled: two are
\* stored, the third cell keeps its font byte
C28_Witness ==
    /\ last.op = "load_rom" /\ last.args = <<\h000, <<\hAB, \hCD, \hEF>>>>
    /\ ram[0] = \hAB /\ ram[1] = \hCD /\ ram[2] = \h90
    /\ framebuffer # FrameNew

\* C29: under every profile a returned cycle() of 6xnn leaves nn in Vx, of 7xnn
\* (Vx + nn) mod 256, of 8xy0 Vy, and of 8xy1, 8xy2, 8xy3 the bitwise OR, AND, XOR
\* of Vx and Vy; nothing but Vx and PC changes: not Vy, not VF (unless it is Vx),
\* not I, the timers, SP, memory, stack or framebuffer.
C29_FlagFree ==
    [][(/\ CycleDone /\ CanFetch(self)
        /\ OpC \in {6, 7} \/ (OpC = 8 /\ OpN \in 0..3)) =>
            LET a == regs.vx[OpX]
                b == regs.vx[OpY]
                r == regs'.vx[OpX]
            IN  /\ OpC = 6 => r = OpNN
                /\ OpC = 7 => r = IF a + OpNN > 255 THEN a + OpNN - 256 ELSE a + OpNN
                /\ (OpC = 8 /\ OpN = 0) => r = b
                /\ (OpC = 8 /\ OpN = 1) =>
                        \A i \in 0..7 : Bit(r, i) = 1 <=> (Bit(a, i) = 1 \/ Bit(b, i) = 1)
                /\ (OpC = 8 /\ OpN = 2) =>
                        \A i \in 0..7 : Bit(r, i) = 1 <=> (Bit(a, i) = 1 /\ Bit(b, i) = 1)
                /\ (OpC = 8 /\ OpN = 3) =>
                        \A i \in 0..7 : Bit(r, i) = 1 <=> (Bit(a, i) # Bit(b, i))
                /\ r \in 0..255
                /\ regs' = [regs EXCEPT !.vx[OpX] = r, !.pc = @ + 2]
                /\ ram' = ram /\ stack' = stack /\ framebuffer' = framebuffer]_vars

\* LD VF, 7 ; LD V2, 0x80 ; ADD V2, 0x80 : V2 wrapped to 0 and VF kept its 7
C29_Witness ==
    /\ Did("cycle", \h7280)
    /\ ram[\h200] = \h6F /\ ram[\h201] = \h07 /\ ram[\h203] = \h80
    /\ regs.vx[2] = 0 /\ regs.vx[15] = 7 /\ regs.pc = \h206

\* C30: a returned cycle() of 1nnn leaves PC = nnn and of Bnnn PC = V0 + nnn, the
\* sum not cut to twelve bits; SP, the stack and every other register are unchanged.
C30_Jumps ==
    [][/\ (CycleDone /\ CanFetch(self) /\ OpC = 1) =>
            /\ regs' = [regs EXCEPT !.pc = OpNNN]
            /\ stack' = stack
       /\ (CycleDone /\ CanFetch(self) /\ OpC = \hB) =>
            /\ regs' = [regs EXCEPT !.pc = regs.vx[0] + OpNNN]
            /\ stack' = stack]_vars

\* LD V0, 0xFF ; JP V0, 0xFFF : PC = 0x10FE
C30_Witness ==
    /\ Did("cycle", \hBFFF)
    /\ regs.vx[0] = \hFF /\ regs.pc = \h10FE /\ regs.sp = 0

\* C31: a returned cycle() of Fx1E leaves I = I + Vx as a 16-bit value, not cut to
\* twelve bits, and every V register as it was; a returned cycle() of Annn leaves
\* I = nnn whatever I was.  Only I and PC change.
C31_AddI ==
    [][/\ Fx(\h1E) =>
            /\ regs'.i = (regs.i + regs.vx[OpX]) % 65536
            /\ regs'.i \in 0..65535
            /\ regs'.vx = regs.vx
            /\ regs' = [regs EXCEPT !.i = regs'.i, !.pc = @ + 2]
       /\ (CycleDone /\ CanFetch(self) /\ OpC = \hA) =>
            regs' = [regs EXCEPT !.i = OpNNN, !.pc = @ + 2]]_vars

\* I = 0x1AF0 set by hand, LD V2, 0x22 ; ADD I, V2 : I = 0x1B12 and V2 = 0x22
C31_Witness ==
    /\ Did("cycle", \hF21E)
    /\ regs.i = \h1B12 /\ regs.vx[2] = \h22 /\ regs.vx[15] = 0

\* C32: a returned cycle() of Dxyn flips the cells that the n bytes memory[I] ..
\* memory[I + n - 1], drawn as rows at (Vx, Vy) as they were before the cycle, cover
\* with a 1 bit, and no other cell; VF becomes 1 if that draw reported a collision
\* and 0 otherwise, so 0 for n = 0; nothing else changes but PC.
C32_Drw ==
    [][(CycleDone /\ CanFetch(self) /\ OpC = \hD) =>
        LET sprite == [k \in 1..OpN |-> ram[regs.i + k - 1]]
            x == regs.vx[OpX]
            y == regs.vx[OpY]
        IN  /\ \A row \in 0..(DISPLAY_HEIGHT - 1) :
                    IF row \in SpriteRows(OpN, y)
                    THEN \A col \in Cols :
                            framebuffer'[row][col] =
                                IF Flips(sprite, x, y, row, col)
                                THEN 1 - framebuffer[row][col]
                                ELSE framebuffer[row][col]
                    ELSE framebuffer'[row] = framebuffer[row]
            /\ regs'.vx[15] = IF colisions' THEN 1 ELSE 0
            /\ OpN = 0 => regs'.vx[15] = 0
            /\ regs' = [regs EXCEPT !.vx[15] = regs'.vx[15], !.pc = @ + 2]
            /\ ram' = ram /\ stack' = stack /\ keys' = keys]_vars

\* LD VF, 0x3E ; LD I, 0 ; DRW VF, V1, 5 : the two left columns of digit 0 (rows
\* 0x60, 0x90, ...) drawn at columns 62 and 63, where VF pointed before the draw
\* cleared it; the columns that VF = 0 would have meant are empty
C32_Witness ==
    /\ Did("cycle", \hDF15)
    /\ cycles = 3
    /\ ram[\h200] = \h6F /\ ram[\h201] = \h3E
    /\ regs.vx[15] = 0 /\ regs.i = 0
    /\ framebuffer[0][62] = 0 /\ framebuffer[0][63] = 1
    /\ framebuffer[1][62] = 1 /\ framebuffer[1][63] = 0
    /\ framebuffer[0][1] = 0 /\ framebuffer[1][0] = 0

\* C33: in every state the framebuffer is a grid of DISPLAY_HEIGHT rows of
\* DISPLAY_WIDTH cells, each 0 or 1, and get_frame() returns that grid as it is.
C33_FrameCells ==
    /\ DOMAIN framebuffer = 0..(DISPLAY_HEIGHT - 1)
    /\ \A row \in DOMAIN framebuffer :
        /\ DOMAIN framebuffer[row] = 0..(DISPLAY_WIDTH - 1)
        /\ \A col \in DOMAIN framebuffer[row] : framebuffer[row][col] \in {0, 1}
    /\ get_frame(self) = framebuffer

\* a frame filled with ones, then LD V0, 0 ; LD I, 0 ; DRW V0, V1, 5 : digit 0 (first
\* row 0x60) cleared the cells it covers and reported the collision
C33_Witness ==
    /\ Did("cycle", \hD015)
    /\ regs.vx[15] = 1
    /\ framebuffer[0][0] = 1 /\ framebuffer[0][1] = 0 /\ framebuffer[0][2] = 0
    /\ framebuffer[0][3] = 1 /\ framebuffer[5][1] = 1

\* C34: a machine on which nothing has been called since construction has V0..VF,
\* I, DT, ST, PC and SP at 0, all 16 keys unpressed, every framebuffer cell 0 and
\* every memory byte from address 80 on 0, the sprite table filling 0..79; its
\* is_sound_on() is false.
C34_Fresh ==
    last.op = "new" =>
        /\ \A r \in 0..15 : regs.vx[r] = 0
        /\ regs.i = 0 /\ regs.dt = 0 /\ regs.st = 0 /\ regs.pc = 0 /\ regs.sp = 0
        /\ DOMAIN keys = 0..15 /\ \A k \in 0..15 : ~keys[k]
        /\ \A row \in 0..(DISPLAY_HEIGHT - 1), col \in 0..(DISPLAY_WIDTH - 1) :
                framebuffer[row][col] = 0
        /\ \A a \in 80..(RAMSIZE - 1) : ram[a] = 0
        /\ FontInMemory(ram)
        /\ ~is_sound_on(self)

\* the new machine with the modern profile, the first byte of digit 0 at address 0
\* and the last byte of digit F at address 79
C34_Witness ==
    /\ last.op = "new" /\ phase = "new" /\ cycles = 0
    /\ profile = ProfileModern
    /\ ram[0] = Sprites[1][1] /\ ram[79] = Sprites[16][5] /\ ram[79] # 0

\* the machine with the two states Running and AwaitingKey: Running, an Fx0A with no
\* key pressed enters AwaitingKey and changes nothing; AwaitingKey, a cycle with no
\* key pressed changes nothing, and one with a key pressed stores the lowest such
\* key in Vx, moves PC past the Fx0A and goes back to Running, without fetching
\* anything; every other cycle is that of cycle().  w is [on, x].
two_state_cycle(c, w, oc) ==
    LET pressed == { k \in 0..(NKEYS - 1) : c.keys[k] }
        low == CHOOSE k \in pressed : \A j \in pressed : k <= j
        word == c.ram[c.regs.pc] * 256 + c.ram[c.regs.pc + 1]
    IN  IF w.on
        THEN IF pressed = {}
             THEN [c |-> c, w |-> w]
             ELSE [c |-> [c EXCEPT !.regs.vx[w.x] = low, !.regs.pc = @ + 2],
                   w |-> NotAwaiting]
        ELSE IF /\ CanFetch(c)
                /\ word \div 4096 = 15 /\ word % 256 = \h0A
                /\ pressed = {}
             THEN [c |-> c, w |-> [on |-> TRUE, x |-> (word \div 256) % 16]]
             ELSE [c |-> cycle(c, oc), w |-> NotAwaiting]

\* C35: started in the same state and the same mode, a cycle() of the two-state
\* machine and the cycle() the program made end with the same PC and registers (and
\* the same memory, stack, frame and outcome), and the two-state machine is in
\* AwaitingKey exactly when the program's last cycle() was an Fx0A that rewound; so
\* the two produce the same values after every cycle() of every run, whatever key
\* events and timer ticks come between.  While waiting, PC is at the Fx0A that waits.
C35_TwoStateMachine ==
    [][/\ await.on =>
            /\ CanFetch(self) /\ OpC = 15 /\ OpNN = \h0A /\ OpX = await.x
       /\ CycleCalled =>
            LET t == two_state_cycle(self, await, build' = "debug")
            IN  /\ t.c.regs = regs'
                /\ t.c.panic = panic'
                /\ t.c.ram = ram' /\ t.c.stack = stack'
                /\ t.c.framebuffer = framebuffer'
                /\ t.w = await'
       /\ ~CycleCalled => await' = await]_vars

\* LD V1, K waited, two events came of which the last on key 5 was a press, and the
\* next cycle left the wait with V1 = 5
C35_Witness ==
    /\ Did("cycle", \hF10A)
    /\ cycles >= 2 /\ events = 2
    /\ keyev[5] = "press" /\ keyev[0] = "none"
    /\ ~await.on
    /\ regs.vx[1] = 5 /\ regs.pc = \h202

\* C36: DT changes only in a cycle() of Fx15, which sets it to Vx, and in
\* cycle_timers(); ST only in a cycle() of Fx18, which sets it to Vx, and in
\* cycle_timers(); Fx07 copies DT to Vx and leaves DT; no other call changes either;
\* and cycle_timers() changes nothing but DT and ST.
C36_TimerWrites ==
    [][/\ Fx(\h15) => regs'.dt = regs.vx[OpX] /\ regs'.st = regs.st
       /\ Fx(\h18) => regs'.st = regs.vx[OpX] /\ regs'.dt = regs.dt
       /\ Fx(\h07) => regs'.vx[OpX] = regs.dt /\ regs'.dt = regs.dt /\ regs'.st = regs.st
       /\ regs'.dt # regs.dt => Fx(\h15) \/ last'.op = "cycle_timers"
       /\ regs'.st # regs.st => Fx(\h18) \/ last'.op = "cycle_timers"
       /\ last'.op = "cycle_timers" =>
            /\ regs' = [regs EXCEPT !.dt = regs'.dt, !.st = regs'.st]
            /\ ram' = ram /\ stack' = stack /\ framebuffer' = framebuffer
            /\ keys' = keys /\ panic' = panic]_vars

\* LD V0, 3 ; LD DT, V0 ; LD ST, V0 ; LD V1, DT with one timer tick before the last
\* instruction: V1 = 2 and DT still 2
C36_Witness ==
    /\ Did("cycle", \hF107)
    /\ regs.vx[0] = 3 /\ regs.vx[1] = 2 /\ regs.dt = 2 /\ regs.st = 2
    /\ events = 1

\* C37: a cycle() of 2nnn with SP = 16 and a cycle() of 00EE with SP = 0 do not
\* return: the process aborts, and nothing is called on the machine afterwards.  In
\* every state of a running machine SP is in 0..16 and the stack has its 16 slots,
\* and a RET that returned took PC from one of them.
C37_StackFaults ==
    [][/\ (CycleCalled /\ CanFetch(self) /\ OpC = 2 /\ regs.sp = STACKSIZE) =>
            panic' # "none"
       /\ (CycleCalled /\ CanFetch(self) /\ OpWord = \h00EE /\ regs.sp = 0) =>
            panic' # "none"
       /\ panic = "none"
       /\ panic' = "none" =>
            /\ regs'.sp \in 0..STACKSIZE
            /\ DOMAIN stack' = 0..(STACKSIZE - 1)
       /\ (CycleDone /\ CanFetch(self) /\ OpWord = \h00EE) =>
            \E k \in 0..(STACKSIZE - 1) : k = regs.sp - 1 /\ regs'.pc = stack[k]]_vars

\* CALL 0x200 at 0x200 sixteen times, and the seventeenth aborted with the stack full
C37_Witness ==
    /\ last.op = "cycle" /\ last.code = \h2200
    /\ panic # "none"
    /\ cycles = 17
    /\ regs.sp = STACKSIZE /\ stack[STACKSIZE - 1] = \h202

\* C38: memory keeps its RAMSIZE cells.  A fetch with PC or PC + 1 past the end,
\* Fx33, Fx55 and Fx65 reaching past the end through I, Dxyn with a slice that ends
\* past the end, and load_rom running past the end abort with an index panic: the
\* address is not wrapped and not held at the last cell.  The bytes the call stored
\* below the end before that are in memory and no other cell has changed; Fx65 and
\* Dxyn have changed no memory, and Dxyn no cell of the frame.
C38_MemoryFaults ==
    [][/\ DOMAIN ram' = 0..(RAMSIZE - 1)
       /\ (CycleCalled /\ ~CanFetch(self)) =>
            /\ panic' = "index"
            /\ ram' = ram /\ regs' = regs /\ framebuffer' = framebuffer
       /\ (CycleCalled /\ CanFetch(self) /\ OpC = 15 /\ OpNN = \h33
           /\ regs.i + 2 >= RAMSIZE) =>
            LET v == regs.vx[OpX]
                bcd == << v \div 100, (v \div 10) % 10, v % 10 >>
            IN  /\ panic' = "index"
                /\ \A a \in 0..(RAMSIZE - 1) :
                        ram'[a] = IF a >= regs.i THEN bcd[a - regs.i + 1] ELSE ram[a]
       /\ (CycleCalled /\ CanFetch(self) /\ OpC = 15 /\ OpNN = \h55
           /\ regs.i + OpX >= RAMSIZE) =>
            /\ panic' = "index"
            /\ \A a \in 0..(RAMSIZE - 1) :
                    ram'[a] = IF a >= regs.i THEN regs.vx[a - regs.i] ELSE ram[a]
            /\ regs'.i = regs.i
       /\ (CycleCalled /\ CanFetch(self) /\ OpC = 15 /\ OpNN = \h65
           /\ regs.i + OpX >= RAMSIZE) =>
            /\ panic' = "index"
            /\ ram' = ram
            /\ regs'.i = regs.i
       /\ (CycleCalled /\ CanFetch(self) /\ OpC = \hD /\ regs.i + OpN > RAMSIZE) =>
            /\ panic' = "index"
            /\ ram' = ram /\ framebuffer' = framebuffer
            /\ regs'.vx = regs.vx
       /\ (last'.op = "load_rom"
           /\ last'.args[1] + 2 * (Len(last'.args[2]) \div 2) > RAMSIZE) =>
            LET start == last'.args[1]
                rom == last'.args[2]
                n == Len(rom) \div 2
            IN  /\ panic' = "index"
                /\ \A a \in 0..(RAMSIZE - 1) :
                        ram'[a] = IF a >= start /\ a < start + 2 * n
                                  THEN rom[a - start + 1] ELSE ram[a]]_vars

\* LD V0, 0x11 ; LD V1, 0x22 ; LD V2, 0x33 ; LD I, 0xFFE ; LD [I], V2 : V0 and V1
\* are in the last two cells, the store of V2 aborted, and cell 0, where a wrapped
\* address would have pointed, still holds its font byte
C38_Witness ==
    /\ last.op = "cycle" /\ last.code = \hF255
    /\ panic = "index"
    /\ regs.i = \hFFE
    /\ ram[\hFFE] = \h11 /\ ram[\hFFF] = \h22
    /\ ram[0] = Sprites[1][1] /\ ram[0] # \h33

\* C39: a cycle() of Ex9E, ExA1 or Fx29 returns if and only if Vx is in 0..15, and
\* key_press(k) and key_unpress(k) return if and only if k is in 0..15; otherwise
\* the call aborts with an index panic, having changed neither the keypad nor I nor
\* PC beyond the fetch: the value is not taken modulo 16.
C39_TableIndices ==
    [][/\ (/\ CycleCalled /\ CanFetch(self)
           /\ \/ OpC = 14 /\ OpNN \in {\h9E, \hA1}
              \/ OpC = 15 /\ OpNN = \h29) =>
            /\ panic' = "none" <=> regs.vx[OpX] \in 0..15
            /\ panic' # "none" =>
                /\ panic' = "index"
                /\ regs' = [regs EXCEPT !.pc = @ + 2]
                /\ keys' = keys
       /\ last'.op \in {"key_press", "key_unpress"} =>
            /\ panic' = "none" <=> last'.args[1] \in 0..15
            /\ panic' # "none" =>
                /\ panic' = "index"
                /\ keys' = keys /\ regs' = regs]_vars

\* key 15 was pressed, then the press of key 0x1F aborted and left the keypad alone
C39_Witness ==
    /\ last.op = "key_press" /\ last.args = <<\h1F>>
    /\ panic = "index"
    /\ keyev[15] = "press" /\ keys[15]
    /\ \A k \in 0..14 : ~keys[k]

\* the machine runs and the next instruction is an Fx0A
AtWait ==
    /\ Running /\ CanFetch(self)
    /\ OpC = 15 /\ OpNN = \h0A

AnyKey == \E k \in 0..(NKEYS - 1) : keys[k]

\* C40: every call made while the next instruction is Fx0A returns.  A cycle()
\* there with no key pressed leaves PC on the Fx0A, one with a key pressed moves
\* past it at once, whether or not the machine had been waiting, and no other call
\* moves PC; cycle_timers() goes on counting DT and ST down.  With cycle() called
\* again and again the machine does not stay for ever on an Fx0A with a key pressed.
C40_WaitLiveness ==
    /\ [][AtWait =>
            /\ panic' = "none"
            /\ (CycleCalled /\ AnyKey) => regs'.pc = regs.pc + 2
            /\ ~(CycleCalled /\ AnyKey) => regs'.pc = regs.pc /\ AtWait'
            /\ last'.op = "cycle_timers" =>
                /\ regs'.dt = IF regs.dt > 0 THEN regs.dt - 1 ELSE 0
                /\ regs'.st = IF regs.st > 0 THEN regs.st - 1 ELSE 0]_vars
    /\ []<>~(AtWait /\ AnyKey)

\* key 5 was pressed before the fourth instruction, the LD V1, K, was reached: the
\* fourth cycle() took the key and the fifth is at the jump
C40_Witness ==
    /\ Did("cycle", \hF10A)
    /\ cycles = 4 /\ events = 1
    /\ keys[5] /\ regs.vx[1] = 5
    /\ regs.pc = \h208 /\ regs.dt = 3

====
